---- MODULE Spec2Model ----
(***************************************************************************)
(* The student apartment-application page (StudentApplication/index.js):   *)
(* the ApplicationDetails aggregate held in React state, the handlers that *)
(* change it, and the housing / identity services they call.               *)
(*                                                                         *)
(* Every async function is a task: its closure (the applicationDetails of  *)
(* the render that created the handler) is captured when it is called, and *)
(* each await is a point where other steps may run.  A remote call is two  *)
(* steps: the service answers (reading / writing its own record), and the  *)
(* page continues with the answer.                                         *)
(***************************************************************************)
EXTENDS Integers, Sequences, FiniteSets, TLC

\* ------------------------------------------------------------------ bounds
MaxTasks == 2      \* async functions in flight at once
MaxOps == 2        \* user-initiated operations per run
MaxFaults == 1     \* remote calls that fail (401, other error, empty result)
MaxRank == 3       \* the rank values a hall row can be given are 1..MaxRank
MaxChoices == 3    \* rows of the hall list
MaxEditorOps == 3  \* user operations per run of SpecEditor
MaxHallOps == 4    \* user operations per run of SpecHalls
MaxSubmitOps == 5  \* user operations per run of SpecSubmit
MaxRosterOps == 3  \* user operations per run of SpecRoster
MaxStr == 2        \* characters of a string handed to setQueryState or found in the URL
MaxArr == 2        \* elements of an array handed to setQueryState
MaxCalls == 2      \* setQueryState calls and navigations per run of SpecQuery
MaxDraftOps == 4   \* user operations per run of SpecDraft
MaxEventOps == 3   \* user operations and navigations per run of SpecEvents
MaxHalls == 2      \* halls in a list the housing service or the fallback source returns
MaxHallLoads == 3  \* loadHalls calls per run of SpecHallSelection

\* ---------------------------------------------------------- program constants
MAX_NUM_APPLICANTS == 8
NULL_ID == -1      \* ApplicationID: null
NO_ID == 0         \* "no application" id of the housing service
OTHER_APP_ID == 7  \* id of some other group's application
FIRST_ID == 1      \* id of the record the housing service holds at start

\* ------------------------------------------------------------------ people
Me == "me"
Fillers == <<"f1", "f2", "f3", "f4", "f5", "f6">>
AddInputs == {"x", "y", "m", "s", "o", "f1", "me"}
RemoveInputs == {"me", "f1", "x"}
OnOtherApplication == {"o"}

Gender(u) == IF u = "m" THEN "M" ELSE "F"
PersonType(u) == IF u = "s" THEN {"fac"} ELSE {"stu"}

NullProfile == [AD_Username |-> "", Gender |-> "", PersonType |-> {}, isNull |-> TRUE]
getProfileInfo(u) ==
    [AD_Username |-> u, Gender |-> Gender(u), PersonType |-> PersonType(u), isNull |-> FALSE]

\* ------------------------------------------------------------------ state
VARIABLES
    applicationDetails, unsavedChanges, canEditApplication, loading,
    saving, deleting, submitStatus, snackbar,
    deleteDialogOpen, submitDialogOpen, changeEditorDialogOpen,
    newEditorProfile,  \* the member named as the next editor ("" = null)
    alertTimeout,      \* [save, delete, submit]: the *ButtonAlertTimeout holders (TRUE = set)
    timeouts,          \* [save, delete, submit]: setTimeout callbacks scheduled, not yet run
    tasks,             \* the async functions in flight
    srvRec,            \* the housing service's record of this group's application
    srvNextId,         \* the id the housing service gives the next new application
    mounted, crashed, ev, opsLeft, faults,
    \* useQueryState(key, type, initial)
    type, initial,     \* the hook's arguments
    state,             \* useState(initial ?? defaultVal)
    initializing,      \* useState(true)
    search,            \* the key's parameter in location.search
    pushes,            \* history.push calls made
    effectDue,         \* a dependency of updateStateFromURL's effect has changed
    last,              \* the last call: setQueryState's argument, or a navigation
    callsLeft,
    \* a second useQueryState hook of the same component, on another key
    otherSearch,       \* the other key's parameter in location.search
    otherInitializing, \* the other hook's initializing
    captured,          \* location.search as the last render saw it, per key
    \* the Events view
    open, includePast, filters,   \* useState: the filter panel and its settings
    eventsLoading,     \* useState(true): loading
    locationSearch,    \* props.location.search
    eventLoads,        \* the loadEvents calls awaiting the events service
    eventOps,
    \* HallSelection
    availableHalls,    \* useState([])
    hallTask,          \* the loadHalls call in flight
    hallRender,        \* what caused the render whose effect has yet to run
    hallLoads          \* loadHalls calls made

eventVars == <<open, includePast, filters, eventsLoading, locationSearch, eventLoads, eventOps>>
hallListVars == <<availableHalls, hallTask, hallRender, hallLoads>>

pairVars == <<otherSearch, otherInitializing, captured>>

hookVars == <<type, initial, state, initializing, search, pushes, effectDue, last, callsLeft,
              pairVars>>

\* Everything outside the application page
viewVars == <<hookVars, eventVars, hallListVars>>

vars == <<viewVars, applicationDetails, unsavedChanges, canEditApplication, loading,
          saving, deleting, submitStatus, snackbar, deleteDialogOpen, submitDialogOpen,
          changeEditorDialogOpen, newEditorProfile, alertTimeout, timeouts, tasks, srvRec, srvNextId,
          mounted, crashed, ev, opsLeft, faults>>

pageVars == <<applicationDetails, unsavedChanges, canEditApplication>>
flagVars == <<saving, deleting, submitStatus, alertTimeout, timeouts>>
openVars == <<deleteDialogOpen, submitDialogOpen, changeEditorDialogOpen>>
dialogVars == <<deleteDialogOpen, submitDialogOpen, changeEditorDialogOpen, newEditorProfile>>
srvVars == <<srvRec, srvNextId>>

\* ------------------------------------------------------------ the aggregate
Applicant(u) == [Username |-> u, OffCampusProgram |-> ""]
Choice(rank, name) == [HallRank |-> rank, HallName |-> name]

Details(id, submitted, editor, gender, applicants, choices) ==
    [ApplicationID |-> id, DateSubmitted |-> submitted, EditorProfile |-> editor,
     Gender |-> gender, Applicants |-> applicants, ApartmentChoices |-> choices]

BLANK_APPLICATION_DETAILS == Details(NULL_ID, FALSE, "", "undefined", <<>>, <<>>)

Usernames(applicants) == {applicants[i].Username : i \in 1..Len(applicants)}

\* initializeNewApplication's aggregate
NewApplication ==
    [BLANK_APPLICATION_DETAILS EXCEPT
        !.EditorProfile = Me, !.Gender = Gender(Me), !.Applicants = <<Applicant(Me)>>]

\* ------------------------------------------------------------------ tasks
NoResp == [t |-> "none", v |-> 0, rec |-> BLANK_APPLICATION_DETAILS, ids |-> <<>>]
Ok(v) == [NoResp EXCEPT !.t = "ok", !.v = v]
OkRec(r) == [NoResp EXCEPT !.t = "ok", !.rec = r]
OkIds(s) == [NoResp EXCEPT !.t = "ok", !.ids = s]
Thrown(kind) == [NoResp EXCEPT !.t = kind]
FaultKinds == {"auth", "error"}

Idle == [op |-> "idle", pc |-> "", det |-> BLANK_APPLICATION_DETAILS, user |-> "",
         held |-> FALSE, from |-> "", resp |-> NoResp]
Task(op, pc, det, user, held) ==
    [op |-> op, pc |-> pc, det |-> det, user |-> user, held |-> held, from |-> "",
     resp |-> NoResp]

Slots == 1..MaxTasks
FreeSlots == {i \in Slots : tasks[i].op = "idle"}
HasFree == FreeSlots # {}
FreeSlot == CHOOSE i \in FreeSlots : \A j \in FreeSlots : i <= j
Waiting(i, op, pc) == tasks[i].op = op /\ tasks[i].pc = pc /\ tasks[i].resp.t = "none"
Answered(i, op, pc) == tasks[i].op = op /\ tasks[i].pc = pc /\ tasks[i].resp.t # "none"

\* ev: the last step (op, what, the severity of the notification it raised, the
\* requests it sent, the caller of a load, the arguments of a hall edit), and
\* `accepted`: an editor transfer has been accepted with a pending editor
NoArg == [rank |-> 0, name |-> "", k |-> 0]
NoEvent == [op |-> "init", what |-> "", note |-> "none", sent |-> 0, from |-> "",
            arg |-> NoArg, accepted |-> FALSE]
Event(op, what, note, sent) ==
    [op |-> op, what |-> what, note |-> note, sent |-> sent, from |-> "", arg |-> NoArg,
     accepted |-> (ev.accepted \/ (op = "transfer" /\ what # "nopending"))]
createSnackbar(message, severity) == [message |-> message, severity |-> severity, open |-> TRUE]
AuthMessage == "Received a 401 (Unauthorized) response"

\* --------------------------------------------------------- housing service
NoRecord == [BLANK_APPLICATION_DETAILS EXCEPT !.ApplicationID = NO_ID]
HasRecord == srvRec.ApplicationID > 0

\* housing.getCurrentApplicationID(username): the id of the application the member
\* is on; a member on none gets a 404 or the id 0
SrvApplicationIdOf(u) ==
    IF HasRecord /\ (u \in Usernames(srvRec.Applicants) \/ u = srvRec.EditorProfile)
    THEN srvRec.ApplicationID
    ELSE IF u \in OnOtherApplication THEN OTHER_APP_ID ELSE NO_ID

IdAnswers(u) ==
    IF SrvApplicationIdOf(u) > 0 THEN {Ok(SrvApplicationIdOf(u))}
    ELSE {Ok(NO_ID), Thrown("notfound")}

MayFail == faults < MaxFaults
Failures == IF MayFail THEN {Thrown(k) : k \in FaultKinds} ELSE {}
CountFault(r) == faults' = IF r.t \in FaultKinds THEN faults + 1 ELSE faults

\* ------------------------------------------------------------ useQueryState
\* A string is the sequence of its characters; a value of any of the three types is
\* a record with the string, the array and the boolean it may stand for
Types == {"String", "Array", "Boolean"}
Chars == {"a", ","}
StrsUpTo(n) == UNION {[1..k -> Chars] : k \in 0..n}

Value(s, a, b) == [s |-> s, a |-> a, b |-> b]
StringValue(s) == Value(s, <<>>, FALSE)
ArrayValue(a) == Value(<<>>, a, FALSE)
BooleanValue(b) == Value(<<>>, <<>>, b)

defaultValues(t) ==
    IF t = "String" THEN StringValue(<<>>)
    ELSE IF t = "Array" THEN ArrayValue(<<>>)
    ELSE BooleanValue(FALSE)

\* Array.prototype.toString: the elements joined by commas
RECURSIVE join(_)
join(a) ==
    IF Len(a) = 0 THEN <<>>
    ELSE IF Len(a) = 1 THEN a[1]
    ELSE a[1] \o <<",">> \o join(Tail(a))

\* String.prototype.split(','): ''.split(',') is ['']
RECURSIVE split(_)
split(str) ==
    IF \A j \in 1..Len(str) : str[j] # ","
    THEN <<str>>
    ELSE LET c == CHOOSE j \in 1..Len(str) :
                    str[j] = "," /\ \A h \in 1..(j - 1) : str[h] # ","
         IN  <<SubSeq(str, 1, c - 1)>> \o split(SubSeq(str, c + 1, Len(str)))

\* x.toString(); the words true and false are one symbol each
toString(t, v) ==
    IF t = "String" THEN v.s
    ELSE IF t = "Array" THEN join(v.a)
    ELSE IF v.b THEN <<"true">> ELSE <<"false">>

\* The key's parameter: absent (get gives null, has gives false), or its value
Absent == [has |-> FALSE, val |-> <<>>]
Param(val) == [has |-> TRUE, val |-> val]

\* `!nextState || nextState === '' || nextState.length === 0 || nextState === false`
IsEmpty(t, v) ==
    IF t = "String" THEN v.s = <<>>
    ELSE IF t = "Array" THEN v.a = <<>>
    ELSE ~v.b

\* `(nextState.toString() === urlParams.get(key) ?? defaultVal.toString()) ||
\*  (nextState === true && urlParams.get(key) === '')`: === binds tighter than ??,
\* so the left operand of ?? is a boolean, never null, and the default is not used
AlreadyInUrl(t, v, url) ==
    \/ url.has /\ toString(t, v) = url.val
    \/ t = "Boolean" /\ v.b /\ url.has /\ url.val = <<>>

\* setQueryState(nextState) on the URL the last render saw: the parameter after
\* the call, and whether history.push was called
PushFor(t, v, url) ==
    IF AlreadyInUrl(t, v, url) THEN [search |-> url, pushed |-> FALSE]
    ELSE IF IsEmpty(t, v) THEN [search |-> Absent, pushed |-> TRUE]
    ELSE [search |-> Param(toString(t, v)), pushed |-> TRUE]

NoInitial == [given |-> FALSE, v |-> Value(<<>>, <<>>, FALSE)]
Given(v) == [given |-> TRUE, v |-> v]
NoCall == [op |-> "none", arg |-> Value(<<>>, <<>>, FALSE), pushed |-> FALSE]

\* The values setQueryState is called with, and the URLs the page is opened on
StringInputs == {StringValue(str) : str \in StrsUpTo(MaxStr)}
ArrayInputs == {ArrayValue(a) : a \in UNION {[1..k -> StrsUpTo(1)] : k \in 0..MaxArr}}
BooleanInputs == {BooleanValue(b) : b \in BOOLEAN}
Inputs(t) ==
    IF t = "String" THEN StringInputs ELSE IF t = "Array" THEN ArrayInputs ELSE BooleanInputs
UrlInputs(t) ==
    {Absent} \cup {Param(str) : str \in StrsUpTo(MaxStr)}
             \cup (IF t = "Boolean" THEN {Param(<<"true">>), Param(<<"false">>)} ELSE {})

\* The Events view and HallSelection are not rendered
EventsUnused ==
    /\ open = FALSE /\ includePast = FALSE /\ filters = <<>>
    /\ eventsLoading = TRUE /\ locationSearch = <<>> /\ eventLoads = <<>> /\ eventOps = 0

HallSelectionUnused ==
    /\ availableHalls = <<>> /\ hallTask = [pc |-> "idle", halls |-> <<>>]
    /\ hallRender = "none" /\ hallLoads = 0

\* The hook is not in use
HookUnused ==
    /\ type = "none" /\ initial = NoInitial /\ state = Value(<<>>, <<>>, FALSE)
    /\ initializing = TRUE /\ search = Absent /\ pushes = 0 /\ effectDue = FALSE
    /\ last = NoCall /\ callsLeft = 0
    /\ otherSearch = Absent /\ otherInitializing = FALSE
    /\ captured = [key |-> Absent, other |-> Absent]

\* `initial && initial?.toString() !== defaultVal.toString()`: an array is truthy
SetsInitial(t, i) ==
    /\ i.given
    /\ IF t = "String" THEN i.v.s # <<>> ELSE IF t = "Array" THEN TRUE ELSE i.v.b
    /\ toString(t, i.v) # toString(t, defaultValues(t))

\* The effects of the first render: setQueryState(initial) when an initial value
\* other than the default was given, then setInitializing(false); the effect of
\* updateStateFromURL ran with initializing still true and did nothing
MountEffects ==
    /\ type \in Types /\ initializing
    /\ LET o == IF SetsInitial(type, initial) THEN PushFor(type, initial.v, search)
                ELSE [search |-> search, pushed |-> FALSE]
       IN  /\ search' = o.search
           /\ pushes' = IF o.pushed THEN pushes + 1 ELSE pushes
           /\ last' = [op |-> "mount", arg |-> initial.v, pushed |-> o.pushed]
    /\ initializing' = FALSE
    /\ effectDue' = TRUE
    /\ UNCHANGED <<type, initial, state, callsLeft>>
    /\ UNCHANGED pairVars

\* setQueryState(nextState), called from an event handler of the page
setQueryState(nextState) ==
    /\ type \in Types /\ ~initializing /\ ~effectDue
    /\ callsLeft > 0
    /\ callsLeft' = callsLeft - 1
    /\ LET o == PushFor(type, nextState, search) IN
        /\ search' = o.search
        /\ pushes' = IF o.pushed THEN pushes + 1 ELSE pushes
        /\ effectDue' = (o.search # search)
        /\ last' = [op |-> "set", arg |-> nextState, pushed |-> o.pushed]
    /\ UNCHANGED <<type, initial, state, initializing>>
    /\ UNCHANGED pairVars

\* The state updateStateFromURL sets
StateFromURL(t, st, url) ==
    IF t = "Boolean" THEN BooleanValue(url.has)
    ELSE IF t = "Array"
    THEN IF (url.has /\ url.val = toString(t, st)) \/ ((~url.has \/ url.val = <<>>) /\ st.a = <<>>)
         THEN st
         ELSE IF url.has THEN ArrayValue(split(url.val)) ELSE defaultValues(t)
    ELSE IF url.has THEN StringValue(url.val) ELSE defaultValues(t)

\* useEffect(updateStateFromURL, [location.search, key, defaultVal, type, state, initializing])
updateStateFromURL ==
    /\ type \in Types /\ ~initializing /\ effectDue
    /\ state' = StateFromURL(type, state, search)
    /\ effectDue' = (state' # state)
    /\ UNCHANGED <<type, initial, initializing, search, pushes, last, callsLeft>>
    /\ UNCHANGED pairVars

\* The user follows a link or goes back: the URL changes under the page
Navigate(url) ==
    /\ type \in Types /\ ~initializing /\ ~effectDue
    /\ callsLeft > 0 /\ url # search
    /\ callsLeft' = callsLeft - 1
    /\ search' = url
    /\ effectDue' = TRUE
    /\ last' = [op |-> "navigate", arg |-> Value(<<>>, <<>>, FALSE), pushed |-> FALSE]
    /\ UNCHANGED <<type, initial, state, initializing, pushes>>
    /\ UNCHANGED pairVars

\* ------------------------------------------------------------------ Init
\* The record of a group of two, edited by the member
PairRecord ==
    Details(FIRST_ID, FALSE, Me, Gender(Me), <<Applicant(Me), Applicant("f1")>>,
            <<Choice(1, "Tavilla")>>)

\* The same group's record once it has been submitted
SubmittedRecord == [PairRecord EXCEPT !.DateSubmitted = TRUE]

\* The same group's record with two halls chosen
TwoHallRecord ==
    [PairRecord EXCEPT !.ApartmentChoices = <<Choice(1, "Bromley"), Choice(2, "Tavilla")>>]

SrvRecords ==
    { NoRecord,
      PairRecord,
      SubmittedRecord,
      Details(FIRST_ID, FALSE, "f1", Gender("f1"), <<Applicant("f1"), Applicant(Me)>>,
              <<Choice(1, "Tavilla")>>),
      Details(FIRST_ID, FALSE, Me, Gender(Me),
              <<Applicant(Me)>> \o [i \in 1..Len(Fillers) |-> Applicant(Fillers[i])],
              <<Choice(1, "Tavilla")>>) }

\* The page as constructed (the useState initial values), the housing service
\* holding one of `records`, with `ops` user operations to come
InitWith(records, ops) ==
    /\ applicationDetails = BLANK_APPLICATION_DETAILS
    /\ unsavedChanges = FALSE
    /\ canEditApplication = FALSE
    /\ loading = TRUE
    /\ saving = "false" /\ deleting = "false" /\ submitStatus = "false"
    /\ snackbar = [message |-> "", severity |-> "", open |-> FALSE]
    /\ deleteDialogOpen = FALSE /\ submitDialogOpen = FALSE /\ changeEditorDialogOpen = FALSE
    /\ newEditorProfile = ""
    /\ alertTimeout = [save |-> FALSE, delete |-> FALSE, submit |-> FALSE]
    /\ timeouts = [save |-> 0, delete |-> 0, submit |-> 0]
    /\ tasks = [i \in Slots |-> Idle]
    /\ srvRec \in records
    /\ srvNextId = IF srvRec.ApplicationID > 0 THEN srvRec.ApplicationID + 1 ELSE FIRST_ID
    /\ mounted = FALSE
    /\ crashed = FALSE
    /\ ev = NoEvent
    /\ opsLeft = ops
    /\ faults = 0
    /\ HookUnused /\ EventsUnused /\ HallSelectionUnused

Init == InitWith(SrvRecords, MaxOps)

\* ------------------------------------------------------------ loadApplication
\* The state loadApplication leaves when the id query or the record fetch has
\* answered with `r`: [details, canEdit, unsaved, note, what]
LoadOutcome(r, cur) ==
    IF r.t = "notfound"
    THEN [details |-> NewApplication, canEdit |-> TRUE, unsaved |-> TRUE,
          note |-> "none", what |-> "fresh"]
    ELSE IF r.t = "auth"
    THEN [details |-> cur.details, canEdit |-> cur.canEdit, unsaved |-> cur.unsaved,
          note |-> "error", what |-> "auth"]
    ELSE [details |-> cur.details, canEdit |-> cur.canEdit, unsaved |-> cur.unsaved,
          note |-> "none", what |-> "swallowed"]

\* The record fetched, with edit rights given to whoever loads it
LoadRecordEditable(rec) ==
    [details |-> rec, canEdit |-> TRUE, unsaved |-> FALSE, note |-> "none", what |-> "record"]

\* The state after the record has been fetched
LoadRecord(rec) ==
    [details |-> rec, canEdit |-> (Me = rec.EditorProfile), unsaved |-> FALSE,
     note |-> "none", what |-> "record"]

Current == [details |-> applicationDetails, canEdit |-> canEditApplication,
            unsaved |-> unsavedChanges]

ApplyLoad(o, from) ==
    /\ applicationDetails' = o.details
    /\ canEditApplication' = o.canEdit
    /\ unsavedChanges' = o.unsaved
    /\ snackbar' = IF o.note = "error" THEN createSnackbar(AuthMessage, "error") ELSE snackbar
    /\ newEditorProfile' = ""
    /\ ev' = [Event("load", o.what, o.note, 0) EXCEPT !.from = from]

\* loadApplication() as called by `from`, up to its first await
LoadTask(from) ==
    [Task("load", "getCurrentApplicationID", BLANK_APPLICATION_DETAILS, Me, FALSE)
        EXCEPT !.from = from]

\* useEffect: setLoading(true); loadApplication(); setLoading(false)
Mount ==
    /\ ~mounted
    /\ mounted' = TRUE
    /\ loading' = FALSE
    /\ tasks' = [tasks EXCEPT ![FreeSlot] = LoadTask("mount")]
    /\ ev' = Event("mount", "", "none", 1)
    /\ UNCHANGED <<pageVars, flagVars, dialogVars, srvVars, snackbar, crashed, opsLeft, faults>>
    /\ UNCHANGED viewVars

LoadIdServe(i) ==
    /\ Waiting(i, "load", "getCurrentApplicationID")
    /\ \E r \in IdAnswers(Me) \cup Failures :
        /\ tasks' = [tasks EXCEPT ![i].resp = r]
        /\ CountFault(r)
    /\ ev' = Event("server", "getCurrentApplicationID", "none", 0)
    /\ UNCHANGED <<pageVars, flagVars, dialogVars, srvVars, snackbar, loading, mounted,
                   crashed, opsLeft>>
    /\ UNCHANGED viewVars

LoadIdContinue(i) ==
    /\ Answered(i, "load", "getCurrentApplicationID")
    /\ LET r == tasks[i].resp IN
        IF r.t = "ok" /\ r.v > 0
        THEN /\ tasks' = [tasks EXCEPT ![i] = [tasks[i] EXCEPT !.pc = "getApartmentApplication",
                                                              !.det.ApplicationID = r.v,
                                                              !.resp = NoResp]]
             /\ ev' = Event("load", "fetch", "none", 1)
             /\ UNCHANGED <<pageVars, snackbar, newEditorProfile>>
        ELSE /\ tasks' = [tasks EXCEPT ![i] = Idle]
             /\ ApplyLoad(LoadOutcome(IF r.t = "ok" THEN Thrown("notfound") ELSE r, Current),
                          tasks[i].from)
    /\ UNCHANGED <<flagVars, openVars, srvVars, loading, mounted, crashed, opsLeft, faults>>
    /\ UNCHANGED viewVars

LoadRecServe(i) ==
    /\ Waiting(i, "load", "getApartmentApplication")
    /\ \E r \in (IF HasRecord /\ srvRec.ApplicationID = tasks[i].det.ApplicationID
                 THEN {OkRec(srvRec)} ELSE {Thrown("notfound")}) \cup Failures :
        /\ tasks' = [tasks EXCEPT ![i].resp = r]
        /\ CountFault(r)
    /\ ev' = Event("server", "getApartmentApplication", "none", 0)
    /\ UNCHANGED <<pageVars, flagVars, dialogVars, srvVars, snackbar, loading, mounted,
                   crashed, opsLeft>>
    /\ UNCHANGED viewVars

LoadRecContinue(i) ==
    /\ Answered(i, "load", "getApartmentApplication")
    /\ LET r == tasks[i].resp IN
        ApplyLoad(IF r.t = "ok" THEN LoadRecord(r.rec) ELSE LoadOutcome(r, Current),
                  tasks[i].from)
    /\ tasks' = [tasks EXCEPT ![i] = Idle]
    /\ UNCHANGED <<flagVars, openVars, srvVars, loading, mounted, crashed, opsLeft, faults>>
    /\ UNCHANGED viewVars

\* The confirmation dialogs are modal: while one is open the page behind it takes
\* no click
NoDialogOpen == ~(changeEditorDialogOpen \/ deleteDialogOpen \/ submitDialogOpen)

\* ------------------------------------------------------------ isApplicantValid
IsStudent(profile) == "stu" \in profile.PersonType

\* isApplicantValid without its gender test
SyncVerdictNoGender(profile, det) ==
    IF profile.isNull THEN "missing"
    ELSE IF Len(det.Applicants) >= MAX_NUM_APPLICANTS THEN "full"
    ELSE IF ~("stu" \in profile.PersonType) THEN "notstudent"
    ELSE "lookup"

\* The checks isApplicantValid makes before it awaits the housing service: the
\* reason it returns false, or "lookup" when it goes on to query the service
SyncVerdict(profile, det) ==
    IF profile.isNull THEN "missing"
    ELSE IF Len(det.Applicants) >= MAX_NUM_APPLICANTS THEN "full"
    ELSE IF ~IsStudent(profile) THEN "notstudent"
    ELSE IF profile.Gender # det.Gender THEN "gender"
    ELSE "lookup"

SyncNote(verdict) == IF verdict = "missing" THEN "error" ELSE "warning"

\* What isApplicantValid returns once getCurrentApplicationID has answered with r.
\* Any error other than 404 and 401 is rethrown, and the rethrow is discarded by the
\* `return result` of the finally block.
LookupVerdict(r, det) ==
    IF r.t = "ok"
    THEN IF r.v > 0 /\ r.v # det.ApplicationID
         THEN [valid |-> FALSE, note |-> "warning", what |-> "conflict"]
         ELSE [valid |-> TRUE, note |-> "none", what |-> "valid"]
    ELSE IF r.t = "notfound" THEN [valid |-> TRUE, note |-> "none", what |-> "valid"]
    ELSE IF r.t = "auth" THEN [valid |-> FALSE, note |-> "error", what |-> "auth"]
    ELSE [valid |-> FALSE, note |-> "none", what |-> "swallowed"]

\* ------------------------------------------------------------ addApplicant
AlreadyListed(det, u) == u \in Usernames(det.Applicants)

\* handleSearchSubmit -> addApplicant: the call, up to `await user.getProfileInfo`
AddCall(u) ==
    /\ mounted /\ ~loading /\ canEditApplication /\ NoDialogOpen
    /\ opsLeft > 0 /\ HasFree
    /\ opsLeft' = opsLeft - 1
    /\ tasks' = [tasks EXCEPT ![FreeSlot] = Task("add", "getProfileInfo", applicationDetails, u, FALSE)]
    /\ ev' = Event("add", "call", "none", 1)
    /\ UNCHANGED <<pageVars, flagVars, dialogVars, srvVars, snackbar, loading, mounted,
                   crashed, faults>>
    /\ UNCHANGED viewVars

\* The answers of the identity service
ProfileAnswers(u) ==
    {OkRec(getProfileInfo(u))} \cup
    (IF MayFail THEN {OkRec(NullProfile), Thrown("error")} ELSE {})

\* After the profile: the duplicate test, then isApplicantValid up to its await
AddAfterProfile(r, det, u) ==
    IF r.t # "ok" THEN [what |-> "threw", note |-> "error"]
    ELSE IF AlreadyListed(det, u)
    THEN [what |-> "listed", note |-> IF r.rec.isNull THEN "error" ELSE "info"]
    ELSE [what |-> SyncVerdict(r.rec, det), note |-> SyncNote(SyncVerdict(r.rec, det))]

AddProfileContinue(i) ==
    /\ Waiting(i, "add", "getProfileInfo")
    /\ \E r \in ProfileAnswers(tasks[i].user) :
        LET o == AddAfterProfile(r, tasks[i].det, tasks[i].user) IN
        /\ faults' = IF r.t = "ok" /\ ~r.rec.isNull THEN faults ELSE faults + 1
        /\ IF o.what = "lookup"
           THEN /\ tasks' = [tasks EXCEPT ![i].pc = "getCurrentApplicationID"]
                /\ ev' = Event("add", "lookup", "none", 1)
                /\ UNCHANGED snackbar
           ELSE /\ tasks' = [tasks EXCEPT ![i] = Idle]
                /\ ev' = Event("add", o.what, o.note, 0)
                /\ snackbar' = createSnackbar(o.what, o.note)
    /\ UNCHANGED <<pageVars, flagVars, dialogVars, srvVars, loading, mounted, crashed, opsLeft>>
    /\ UNCHANGED viewVars

AddIdServe(i) ==
    /\ Waiting(i, "add", "getCurrentApplicationID")
    /\ \E r \in IdAnswers(tasks[i].user) \cup Failures :
        /\ tasks' = [tasks EXCEPT ![i].resp = r]
        /\ CountFault(r)
    /\ ev' = Event("server", "getCurrentApplicationID", "none", 0)
    /\ UNCHANGED <<pageVars, flagVars, dialogVars, srvVars, snackbar, loading, mounted,
                   crashed, opsLeft>>
    /\ UNCHANGED viewVars

\* setApplicationDetails(prev => ({...prev, Applicants: [...prev.Applicants, new]}))
AppendApplicant(prev, u) == [prev EXCEPT !.Applicants = Append(prev.Applicants, Applicant(u))]

AddIdContinue(i) ==
    /\ Answered(i, "add", "getCurrentApplicationID")
    /\ LET o == LookupVerdict(tasks[i].resp, tasks[i].det) IN
        IF o.valid
        THEN /\ applicationDetails' = AppendApplicant(applicationDetails, tasks[i].user)
             /\ unsavedChanges' = TRUE
             /\ ev' = Event("add", "appended", "none", 0)
             /\ UNCHANGED <<snackbar, canEditApplication>>
        ELSE /\ ev' = Event("add", o.what, o.note, 0)
             /\ snackbar' = IF o.note = "none" THEN snackbar ELSE createSnackbar(o.what, o.note)
             /\ UNCHANGED pageVars
    /\ tasks' = [tasks EXCEPT ![i] = Idle]
    /\ UNCHANGED <<flagVars, dialogVars, srvVars, loading, mounted, crashed, opsLeft, faults>>
    /\ UNCHANGED viewVars

\* ------------------------------------------------------ handleApplicantRemove
RemoveApplicant(prev, u) ==
    [prev EXCEPT !.Applicants = SelectSeq(prev.Applicants, LAMBDA a : a.Username # u)]

handleApplicantRemove(u) ==
    /\ mounted /\ ~loading /\ canEditApplication /\ NoDialogOpen
    /\ opsLeft > 0
    /\ opsLeft' = opsLeft - 1
    /\ applicationDetails' = RemoveApplicant(applicationDetails, u)
    /\ unsavedChanges' = TRUE
    /\ ev' = Event("remove", u, "none", 0)
    /\ UNCHANGED <<canEditApplication, flagVars, dialogVars, srvVars, snackbar, tasks, loading,
                   mounted, crashed, faults>>
    /\ UNCHANGED viewVars

\* ------------------------------------------------------- status-icon timers
\* The finally block of save / delete / submit: `held` is the *ButtonAlertTimeout the
\* closure captured; a timeout is scheduled only when that was null
ScheduleTimeout(kind, held) ==
    /\ alertTimeout' = [alertTimeout EXCEPT ![kind] = IF held THEN @ ELSE TRUE]
    /\ timeouts' = [timeouts EXCEPT ![kind] = IF held THEN @ ELSE @ + 1]

\* An operation that ends before its first await: the holder was set to null at its
\* entry, and its finally block still tests the captured value
ClearAndSchedule(kind, held) ==
    /\ alertTimeout' = [alertTimeout EXCEPT ![kind] = ~held]
    /\ timeouts' = [timeouts EXCEPT ![kind] = IF held THEN @ ELSE @ + 1]

\* The entry of save / delete / submit: set*ButtonAlertTimeout(null)
ClearHolder(kind) ==
    /\ alertTimeout' = [alertTimeout EXCEPT ![kind] = FALSE]
    /\ UNCHANGED timeouts

\* setTimeout(() => { set*ButtonAlertTimeout(null); set*(false) }, DYNAMIC_ICON_TIMEOUT)
TimeoutFires(kind) ==
    /\ timeouts[kind] > 0
    /\ timeouts' = [timeouts EXCEPT ![kind] = @ - 1]
    /\ alertTimeout' = [alertTimeout EXCEPT ![kind] = FALSE]
    /\ saving' = IF kind = "save" THEN "false" ELSE saving
    /\ deleting' = IF kind = "delete" THEN "false" ELSE deleting
    /\ submitStatus' = IF kind = "submit" THEN "false" ELSE submitStatus
    /\ ev' = Event("timeout", kind, "none", 0)
    /\ UNCHANGED <<pageVars, dialogVars, srvVars, snackbar, tasks, loading, mounted, crashed,
                   opsLeft, faults>>
    /\ UNCHANGED viewVars

\* ------------------------------------------- the applicant-validation gate
\* applicationDetails.Applicants.map(isApplicantValid): the verdict of each
\* applicant's checks before the await
SyncVerdicts(det) ==
    [i \in 1..Len(det.Applicants) |-> SyncVerdict(getProfileInfo(det.Applicants[i].Username), det)]

Lookups(det) == {i \in 1..Len(det.Applicants) : SyncVerdicts(det)[i] = "lookup"}

\* validApplicants, once every lookup has answered with ids[i]
ValidApplicants(det, ids) ==
    [i \in 1..Len(det.Applicants) |->
        SyncVerdicts(det)[i] = "lookup" /\ LookupVerdict(ids[i], det).valid]

\* validApplicants.some((v) => v)
SomeValid(valids) == \E i \in 1..Len(valids) : valids[i]

\* validApplicants.every((v) => v)
AllValid(valids) == \A i \in 1..Len(valids) : valids[i]

\* The last notification isApplicantValid raised, "none" when it raised none
GateNote(det, ids) ==
    LET n == Len(det.Applicants)
        noted == {i \in 1..n : SyncVerdicts(det)[i] = "lookup" /\ LookupVerdict(ids[i], det).note # "none"}
        synced == {i \in 1..n : SyncVerdicts(det)[i] # "lookup"}
    IN  IF noted # {} THEN LookupVerdict(ids[CHOOSE i \in noted : TRUE], det).note
        ELSE IF synced # {} THEN SyncNote(SyncVerdicts(det)[CHOOSE i \in synced : TRUE])
        ELSE "none"

\* The housing service answers every lookup of one Promise.all; at most one of them fails
GateAnswers(det) ==
    LET n == Len(det.Applicants)
        plain(style) == [i \in 1..n |->
            IF SrvApplicationIdOf(det.Applicants[i].Username) > 0
            THEN Ok(SrvApplicationIdOf(det.Applicants[i].Username))
            ELSE style]
    IN  {plain(style) : style \in {Ok(NO_ID), Thrown("notfound")}} \cup
        (IF MayFail
         THEN {[plain(Ok(NO_ID)) EXCEPT ![j] = Thrown(k)] : j \in Lookups(det), k \in FaultKinds}
         ELSE {})

GateServe(i) ==
    /\ tasks[i].op \in {"save", "submit"} /\ tasks[i].pc = "validate" /\ tasks[i].resp.t = "none"
    /\ \E ids \in GateAnswers(tasks[i].det) :
        /\ tasks' = [tasks EXCEPT ![i].resp = OkIds(ids)]
        /\ faults' = IF \E j \in 1..Len(ids) : ids[j].t \in FaultKinds THEN faults + 1 ELSE faults
    /\ ev' = Event("server", "validate", "none", 0)
    /\ UNCHANGED <<pageVars, flagVars, dialogVars, srvVars, snackbar, loading, mounted,
                   crashed, opsLeft>>
    /\ UNCHANGED viewVars

\* ------------------------------------------------- saveApartmentApplication
\* saveApartmentApplication without its test for an empty roster
SaveStartUnchecked(det, op) ==
    /\ snackbar' = snackbar
    /\ saving' = "true"
    /\ ClearHolder("save")
    /\ tasks' = [tasks EXCEPT ![FreeSlot] =
                    [Task("save", "validate", det, "", alertTimeout.save) EXCEPT !.from = op]]
    /\ ev' = Event(op, "call", "none", Cardinality(Lookups(det)))

\* The call, up to the await of Promise.all (or to the end, with no applicant)
SaveStart(det, op) ==
    IF Len(det.Applicants) < 1
    THEN /\ snackbar' = createSnackbar("no applicants", "error")
         /\ saving' = "error"
         /\ ClearAndSchedule("save", alertTimeout.save)
         /\ ev' = Event(op, "empty", "error", 0)
         /\ UNCHANGED tasks
    ELSE /\ snackbar' = IF Lookups(det) = 1..Len(det.Applicants) THEN snackbar
                        ELSE createSnackbar("invalid applicant", GateNote(det, <<>>))
         /\ saving' = "true"
         /\ ClearHolder("save")
         /\ tasks' = [tasks EXCEPT ![FreeSlot] =
                         [Task("save", "validate", det, "", alertTimeout.save) EXCEPT !.from = op]]
         /\ ev' = Event(op, "call", "none", Cardinality(Lookups(det)))

\* handleSaveButtonClick refusing to start a save while one is in flight
SaveCallExclusive ==
    /\ \A i \in Slots : tasks[i].op # "save"
    /\ mounted /\ ~loading /\ canEditApplication /\ NoDialogOpen
    /\ opsLeft > 0 /\ HasFree
    /\ opsLeft' = opsLeft - 1
    /\ SaveStart(applicationDetails, "save")
    /\ UNCHANGED <<pageVars, deleting, submitStatus, dialogVars, srvVars, loading, mounted,
                   crashed, faults>>
    /\ UNCHANGED viewVars

\* handleSaveButtonClick
SaveCall ==
    /\ mounted /\ ~loading /\ canEditApplication /\ NoDialogOpen
    /\ opsLeft > 0 /\ HasFree
    /\ opsLeft' = opsLeft - 1
    /\ SaveStart(applicationDetails, "save")
    /\ UNCHANGED <<pageVars, deleting, submitStatus, dialogVars, srvVars, loading, mounted,
                   crashed, faults>>
    /\ UNCHANGED viewVars

SaveGateContinue(i) ==
    /\ Answered(i, "save", "validate")
    /\ LET det == tasks[i].det
           ids == tasks[i].resp.ids
       IN  /\ snackbar' = IF GateNote(det, ids) = "none" \/ Lookups(det) = {} THEN snackbar
                          ELSE createSnackbar("invalid applicant", GateNote(det, ids))
           /\ IF AllValid(ValidApplicants(det, ids))
              THEN /\ tasks' = [tasks EXCEPT ![i].pc = "saveApartmentApplication", ![i].resp = NoResp]
                   /\ ev' = Event("save", "request", "none", 1)
                   /\ UNCHANGED <<alertTimeout, timeouts>>
              ELSE /\ tasks' = [tasks EXCEPT ![i] = Idle]
                   /\ ev' = Event("save", "invalid", GateNote(det, ids), 0)
                   /\ ScheduleTimeout("save", tasks[i].held)
    /\ UNCHANGED <<pageVars, saving, deleting, submitStatus, dialogVars, srvVars, loading,
                   mounted, crashed, opsLeft, faults>>
    /\ UNCHANGED viewVars

\* housing.saveApartmentApplication(details): the record is stored and its id returned
SrvSave(det) ==
    IF det.ApplicationID > 0 /\ ~(HasRecord /\ srvRec.ApplicationID = det.ApplicationID)
    THEN [rec |-> srvRec, next |-> srvNextId, resp |-> Thrown("notfound")]
    ELSE LET id == IF HasRecord THEN srvRec.ApplicationID ELSE srvNextId IN
         [rec |-> [det EXCEPT !.ApplicationID = id,
                              !.DateSubmitted = HasRecord /\ srvRec.DateSubmitted],
          next |-> IF HasRecord THEN srvNextId ELSE srvNextId + 1,
          resp |-> Ok(id)]

\* A write that fails: a 401, another error, or an empty (falsy) result
WriteFailures == IF MayFail THEN {Thrown("auth"), Thrown("error"), Ok(NO_ID)} ELSE {}

\* The notification of the catch block of save / delete / submit
CatchMessage(r) ==
    IF r.t = "auth" THEN "not authorized"
    ELSE IF r.t = "notfound" THEN "not found in the database"
    ELSE "something went wrong"

SaveServe(i) ==
    /\ Waiting(i, "save", "saveApartmentApplication")
    /\ \/ /\ srvRec' = SrvSave(tasks[i].det).rec
          /\ srvNextId' = SrvSave(tasks[i].det).next
          /\ tasks' = [tasks EXCEPT ![i].resp = SrvSave(tasks[i].det).resp]
          /\ UNCHANGED faults
       \/ \E r \in WriteFailures :
          /\ tasks' = [tasks EXCEPT ![i].resp = r]
          /\ faults' = faults + 1
          /\ UNCHANGED srvVars
    /\ ev' = Event("server", "saveApartmentApplication", "none", 0)
    /\ UNCHANGED <<pageVars, flagVars, dialogVars, snackbar, loading, mounted, crashed, opsLeft>>
    /\ UNCHANGED viewVars

\* `if (result)` without the test of the result
SucceededUntested(r) == r.t = "ok"

\* `if (result)` of the awaited call: a thrown error or an empty result is caught
Succeeded(r) == r.t = "ok" /\ r.v # 0

\* setApplicationDetails without the new id
AdoptIdDropped(prev, id) == prev

\* setApplicationDetails(prev => ({...prev, ApplicationID: result ?? prev.ApplicationID}))
AdoptId(prev, id) == [prev EXCEPT !.ApplicationID = id]

SaveContinue(i) ==
    /\ Answered(i, "save", "saveApartmentApplication")
    /\ LET r == tasks[i].resp IN
        IF Succeeded(r)
        THEN /\ applicationDetails' = AdoptId(applicationDetails, r.v)
             /\ saving' = "success"
             /\ unsavedChanges' = FALSE
             /\ tasks' = [tasks EXCEPT ![i] = LoadTask("save")]
             /\ ev' = Event("save", "saved", "none", 1)
             /\ UNCHANGED <<snackbar, canEditApplication>>
        ELSE /\ snackbar' = createSnackbar(CatchMessage(r), "error")
             /\ saving' = "error"
             /\ tasks' = [tasks EXCEPT ![i] = Idle]
             /\ ev' = Event("save", "failed", "error", 0)
             /\ UNCHANGED pageVars
    /\ ScheduleTimeout("save", tasks[i].held)
    /\ UNCHANGED <<deleting, submitStatus, dialogVars, srvVars, loading, mounted, crashed,
                   opsLeft, faults>>
    /\ UNCHANGED viewVars

\* ------------------------------------------------ deleteApartmentApplication
DeleteButtonClick ==
    /\ mounted /\ ~loading /\ NoDialogOpen
    /\ opsLeft > 0
    /\ opsLeft' = opsLeft - 1
    /\ deleteDialogOpen' = TRUE
    /\ ev' = Event("dialog", "delete", "none", 0)
    /\ UNCHANGED <<pageVars, flagVars, submitDialogOpen, changeEditorDialogOpen,
                   newEditorProfile, srvVars, snackbar, tasks, loading, mounted, crashed, faults>>
    /\ UNCHANGED viewVars

\* handleCloseOkay
CloseDialogs ==
    /\ changeEditorDialogOpen' = FALSE
    /\ deleteDialogOpen' = FALSE
    /\ submitDialogOpen' = FALSE
    /\ newEditorProfile' = ""

\* handleDeleteAppAccepted: deleteApartmentApplication() up to its await, then handleCloseOkay()
handleDeleteAppAccepted ==
    /\ mounted /\ ~loading /\ deleteDialogOpen
    /\ opsLeft > 0 /\ HasFree
    /\ opsLeft' = opsLeft - 1
    /\ deleting' = "true"
    /\ ClearHolder("delete")
    /\ tasks' = [tasks EXCEPT ![FreeSlot] =
                    Task("delete", "deleteApartmentApplication", applicationDetails, "",
                         alertTimeout.delete)]
    /\ CloseDialogs
    /\ ev' = Event("delete", "call", "none", 1)
    /\ UNCHANGED <<pageVars, saving, submitStatus, srvVars, snackbar, loading, mounted,
                   crashed, faults>>
    /\ UNCHANGED viewVars

\* housing.deleteApartmentApplication(id) and housing.submitApplication(id) act on the
\* record with that id
SrvHolds(id) == HasRecord /\ srvRec.ApplicationID = id

DeleteServe(i) ==
    /\ Waiting(i, "delete", "deleteApartmentApplication")
    /\ \/ /\ SrvHolds(tasks[i].det.ApplicationID)
          /\ srvRec' = NoRecord
          /\ tasks' = [tasks EXCEPT ![i].resp = Ok(1)]
          /\ UNCHANGED <<faults, srvNextId>>
       \/ /\ ~SrvHolds(tasks[i].det.ApplicationID)
          /\ tasks' = [tasks EXCEPT ![i].resp = Thrown("notfound")]
          /\ UNCHANGED <<faults, srvVars>>
       \/ \E r \in WriteFailures :
          /\ tasks' = [tasks EXCEPT ![i].resp = r]
          /\ faults' = faults + 1
          /\ UNCHANGED srvVars
    /\ ev' = Event("server", "deleteApartmentApplication", "none", 0)
    /\ UNCHANGED <<pageVars, flagVars, dialogVars, snackbar, loading, mounted, crashed, opsLeft>>
    /\ UNCHANGED viewVars

DeleteContinue(i) ==
    /\ Answered(i, "delete", "deleteApartmentApplication")
    /\ LET r == tasks[i].resp IN
        IF Succeeded(r)
        THEN /\ deleting' = "success"
             /\ tasks' = [tasks EXCEPT ![i] = LoadTask("delete")]
             /\ ev' = Event("delete", "deleted", "none", 1)
             /\ UNCHANGED snackbar
        ELSE /\ snackbar' = createSnackbar(CatchMessage(r), "error")
             /\ deleting' = "error"
             /\ tasks' = [tasks EXCEPT ![i] = Idle]
             /\ ev' = Event("delete", "failed", "error", 0)
    /\ ScheduleTimeout("delete", tasks[i].held)
    /\ UNCHANGED <<pageVars, saving, submitStatus, dialogVars, srvVars, loading, mounted,
                   crashed, opsLeft, faults>>
    /\ UNCHANGED viewVars

\* ---------------------------------------------------------- submitApplication
\* disableSubmit of the bottom bar (with the cards open and the agreements checked)
disableSubmit ==
    \/ applicationDetails.DateSubmitted
    \/ ~(/\ Len(applicationDetails.Applicants) > 0
         /\ \E j \in 1..Len(applicationDetails.ApartmentChoices) :
                applicationDetails.ApartmentChoices[j].HallName # "")

\* handleSubmitButtonClick: saveApartmentApplication(applicationDetails) returns a
\* promise, which is truthy, so the dialog is opened at once
handleSubmitButtonClick ==
    /\ mounted /\ ~loading /\ canEditApplication /\ ~disableSubmit /\ NoDialogOpen
    /\ opsLeft > 0 /\ HasFree
    /\ opsLeft' = opsLeft - 1
    /\ SaveStart(applicationDetails, "submitclick")
    /\ submitDialogOpen' = TRUE
    /\ UNCHANGED <<pageVars, deleting, submitStatus, deleteDialogOpen, changeEditorDialogOpen,
                   newEditorProfile, srvVars, loading, mounted, crashed, faults>>
    /\ UNCHANGED viewVars

\* handleSubmitAppAccepted: submitApplication() up to its await, then handleCloseOkay()
handleSubmitAppAccepted ==
    /\ mounted /\ ~loading /\ submitDialogOpen
    /\ opsLeft > 0 /\ HasFree
    /\ opsLeft' = opsLeft - 1
    /\ CloseDialogs
    /\ LET det == applicationDetails IN
        IF Len(det.Applicants) < 1
        THEN /\ snackbar' = createSnackbar("no applicants", "error")
             /\ saving' = "error"
             /\ submitStatus' = "true"
             /\ ClearAndSchedule("submit", alertTimeout.submit)
             /\ ev' = Event("submit", "empty", "error", 0)
             /\ UNCHANGED tasks
        ELSE /\ snackbar' = IF Lookups(det) = 1..Len(det.Applicants) THEN snackbar
                            ELSE createSnackbar("invalid applicant", GateNote(det, <<>>))
             /\ submitStatus' = "true"
             /\ ClearHolder("submit")
             /\ tasks' = [tasks EXCEPT ![FreeSlot] =
                             Task("submit", "validate", det, "", alertTimeout.submit)]
             /\ ev' = Event("submit", "call", "none", Cardinality(Lookups(det)))
             /\ UNCHANGED saving
    /\ UNCHANGED <<pageVars, deleting, srvVars, loading, mounted, crashed, faults>>
    /\ UNCHANGED viewVars

SubmitGateContinue(i) ==
    /\ Answered(i, "submit", "validate")
    /\ LET det == tasks[i].det
           ids == tasks[i].resp.ids
       IN  /\ snackbar' = IF GateNote(det, ids) = "none" \/ Lookups(det) = {} THEN snackbar
                          ELSE createSnackbar("invalid applicant", GateNote(det, ids))
           /\ IF AllValid(ValidApplicants(det, ids))
              THEN /\ tasks' = [tasks EXCEPT ![i].pc = "submitApplication", ![i].resp = NoResp]
                   /\ ev' = Event("submit", "request", "none", 1)
                   /\ UNCHANGED <<alertTimeout, timeouts>>
              ELSE /\ tasks' = [tasks EXCEPT ![i] = Idle]
                   /\ ev' = Event("submit", "invalid", GateNote(det, ids), 0)
                   /\ ScheduleTimeout("submit", tasks[i].held)
    /\ UNCHANGED <<pageVars, saving, deleting, submitStatus, dialogVars, srvVars, loading,
                   mounted, crashed, opsLeft, faults>>
    /\ UNCHANGED viewVars

SubmitServe(i) ==
    /\ Waiting(i, "submit", "submitApplication")
    /\ \/ /\ SrvHolds(tasks[i].det.ApplicationID)
          /\ srvRec' = [srvRec EXCEPT !.DateSubmitted = TRUE]
          /\ tasks' = [tasks EXCEPT ![i].resp = Ok(1)]
          /\ UNCHANGED <<faults, srvNextId>>
       \/ /\ ~SrvHolds(tasks[i].det.ApplicationID)
          /\ tasks' = [tasks EXCEPT ![i].resp = Thrown("notfound")]
          /\ UNCHANGED <<faults, srvVars>>
       \/ \E r \in WriteFailures :
          /\ tasks' = [tasks EXCEPT ![i].resp = r]
          /\ faults' = faults + 1
          /\ UNCHANGED srvVars
    /\ ev' = Event("server", "submitApplication", "none", 0)
    /\ UNCHANGED <<pageVars, flagVars, dialogVars, snackbar, loading, mounted, crashed, opsLeft>>
    /\ UNCHANGED viewVars

SubmitContinue(i) ==
    /\ Answered(i, "submit", "submitApplication")
    /\ LET r == tasks[i].resp IN
        IF Succeeded(r)
        THEN /\ submitStatus' = "success"
             /\ tasks' = [tasks EXCEPT ![i] = LoadTask(IF tasks[i].det.DateSubmitted
                                                        THEN "submit again" ELSE "submit")]
             /\ ev' = Event("submit", "submitted", "none", 1)
             /\ UNCHANGED snackbar
        ELSE /\ snackbar' = createSnackbar(CatchMessage(r), "error")
             /\ submitStatus' = "error"
             /\ tasks' = [tasks EXCEPT ![i] = Idle]
             /\ ev' = Event("submit", "failed", "error", 0)
    /\ ScheduleTimeout("submit", tasks[i].held)
    /\ UNCHANGED <<pageVars, saving, deleting, dialogVars, srvVars, loading, mounted,
                   crashed, opsLeft, faults>>
    /\ UNCHANGED viewVars

\* ------------------------------------------------------------ editor transfer
EditorInputs == {"f1", "x", ""}

\* handleChangeEditor's tests without the search of the roster
MayNominateUnlisted(canEdit, det, u) == canEdit /\ u # ""

\* handleChangeEditor's tests: edit rights, a profile, and the profile in Applicants
MayNominate(canEdit, det, u) == canEdit /\ u # "" /\ AlreadyListed(det, u)

\* handleChangeEditor(profile): the handler tests canEditApplication itself; with
\* unsaved changes it starts a save, which it does not await
handleChangeEditor(u) ==
    /\ mounted /\ ~loading /\ NoDialogOpen
    /\ opsLeft > 0
    /\ opsLeft' = opsLeft - 1
    /\ IF MayNominate(canEditApplication, applicationDetails, u)
       THEN /\ IF unsavedChanges
               THEN HasFree /\ SaveStart(applicationDetails, "nominate")
               ELSE /\ ev' = Event("nominate", "offered", "none", 0)
                    /\ UNCHANGED <<snackbar, saving, alertTimeout, timeouts, tasks>>
            /\ newEditorProfile' = u
            /\ changeEditorDialogOpen' = TRUE
       ELSE /\ ev' = Event("nominate", "refused", "none", 0)
            /\ UNCHANGED <<snackbar, saving, alertTimeout, timeouts, tasks, newEditorProfile,
                           changeEditorDialogOpen>>
    /\ UNCHANGED <<pageVars, deleting, submitStatus, deleteDialogOpen, submitDialogOpen, srvVars,
                   loading, mounted, crashed, faults>>
    /\ UNCHANGED viewVars

\* handleChangeEditorAccepted: saveApartmentApplication is async, so the call returns
\* a promise and never throws: the catch block (changeApplicationEditor) cannot run.
\* The finally block revokes the edit rights and closes the dialogs.
handleChangeEditorAccepted ==
    /\ mounted /\ ~loading /\ changeEditorDialogOpen
    /\ opsLeft > 0
    /\ opsLeft' = opsLeft - 1
    /\ IF newEditorProfile # ""
       THEN /\ HasFree
            /\ SaveStart([applicationDetails EXCEPT !.EditorProfile = newEditorProfile], "transfer")
            /\ canEditApplication' = FALSE
            /\ CloseDialogs
            /\ UNCHANGED <<applicationDetails, unsavedChanges>>
       ELSE /\ snackbar' = createSnackbar("new application editor", "error")
            /\ saving' = "error"
            /\ ev' = Event("transfer", "nopending", "error", 0)
            /\ UNCHANGED <<pageVars, alertTimeout, timeouts, tasks, dialogVars>>
    /\ UNCHANGED <<deleting, submitStatus, srvVars, loading, mounted, crashed, faults>>
    /\ UNCHANGED viewVars

\* handleCloseOkay as the Cancel button of a dialog
handleCloseOkay ==
    /\ mounted /\ ~loading
    /\ changeEditorDialogOpen \/ deleteDialogOpen \/ submitDialogOpen
    /\ opsLeft > 0
    /\ opsLeft' = opsLeft - 1
    /\ CloseDialogs
    /\ ev' = Event("cancel", "", "none", 0)
    /\ UNCHANGED <<pageVars, flagVars, srvVars, snackbar, tasks, loading, mounted, crashed, faults>>
    /\ UNCHANGED viewVars

\* ------------------------------------------------------------ preferred halls
HallNames == {"Bromley", "Tavilla"}
RankInputs == 1..MaxRank
\* a row hands over the hall picked from the list, or (on a change of rank) the
\* name it has, which is '' on a placeholder row
NameInputs == HallNames \cup {""}

\* The order of `<` on the hall names ('' < 'Bromley' < 'Tavilla')
NameOrder(name) == IF name = "" THEN 0 ELSE IF name = "Bromley" THEN 1 ELSE 2

\* a before b in the order of sortBy(..., ['HallRank', 'HallName'])
ChoiceBefore(a, b) ==
    \/ a.HallRank < b.HallRank
    \/ a.HallRank = b.HallRank /\ NameOrder(a.HallName) < NameOrder(b.HallName)

\* c put into a sorted list, behind the entries it is not before (the sort is stable)
RECURSIVE InsertChoice(_, _)
InsertChoice(sorted, c) ==
    IF sorted = <<>> THEN <<c>>
    ELSE IF ChoiceBefore(c, Head(sorted)) THEN <<c>> \o sorted
    ELSE <<Head(sorted)>> \o InsertChoice(Tail(sorted), c)

\* sortBy(choices, ['HallRank', 'HallName'])
RECURSIVE sortBy(_)
sortBy(choices) ==
    IF choices = <<>> THEN <<>>
    ELSE InsertChoice(sortBy(SubSeq(choices, 1, Len(choices) - 1)), choices[Len(choices)])

\* handleHallInputChange's test without the exception for the row's own name
NameTakenAnywhere(choices, name, k) ==
    \E j \in 1..Len(choices) : choices[j].HallName = name

\* handleHallInputChange's test: the name differs from the row's own and is in the list
NameTaken(choices, name, k) ==
    /\ name # choices[k].HallName
    /\ \E j \in 1..Len(choices) : choices[j].HallName = name

\* handleHallInputChange leaving the order of the list as it is
EditChoiceUnsorted(choices, rank, name, k) ==
    IF NameTaken(choices, name, k) THEN choices
    ELSE [choices EXCEPT ![k] = Choice(rank, name)]

\* handleHallInputChange(hallRankValue, hallNameValue, index), index = k - 1
EditChoice(choices, rank, name, k) ==
    IF NameTaken(choices, name, k) THEN sortBy(choices)
    ELSE sortBy([choices EXCEPT ![k] = Choice(rank, name)])

handleHallInputChange(rank, name, k) ==
    /\ mounted /\ ~loading /\ canEditApplication /\ NoDialogOpen
    /\ k \in 1..Len(applicationDetails.ApartmentChoices)
    /\ name \in HallNames \/ name = applicationDetails.ApartmentChoices[k].HallName
    /\ opsLeft > 0
    /\ opsLeft' = opsLeft - 1
    /\ LET choices == applicationDetails.ApartmentChoices IN
        /\ applicationDetails' =
                [applicationDetails EXCEPT !.ApartmentChoices = EditChoice(choices, rank, name, k)]
        /\ snackbar' = IF NameTaken(choices, name, k)
                       THEN createSnackbar("is already in the list", "info") ELSE snackbar
        /\ ev' = [Event("editChoice", IF NameTaken(choices, name, k) THEN "taken" ELSE "stored",
                        IF NameTaken(choices, name, k) THEN "info" ELSE "none", 0)
                   EXCEPT !.arg = [rank |-> rank, name |-> name, k |-> k]]
    /\ unsavedChanges' = TRUE
    /\ UNCHANGED <<canEditApplication, flagVars, dialogVars, srvVars, tasks, loading, mounted,
                   crashed, faults>>
    /\ UNCHANGED viewVars

\* handleHallRemove giving the remaining rows the ranks 1..length again
RemoveChoiceRenumbered(choices, k) ==
    [j \in 1..(Len(choices) - 1) |->
        [(IF j < k THEN choices[j] ELSE choices[j + 1]) EXCEPT !.HallRank = j]]

\* handleHallRemove without the map over the remaining rows
RemoveChoiceUnclamped(choices, k) ==
    [j \in 1..(Len(choices) - 1) |-> IF j < k THEN choices[j] ELSE choices[j + 1]]

\* handleHallRemove(indexToRemove): a rank above the new length is set to that length
RemoveChoice(choices, k) ==
    LET rest == [j \in 1..(Len(choices) - 1) |-> IF j < k THEN choices[j] ELSE choices[j + 1]]
    IN  [j \in 1..Len(rest) |->
            IF rest[j].HallRank > Len(rest) THEN [rest[j] EXCEPT !.HallRank = Len(rest)]
            ELSE rest[j]]

handleHallRemove(k) ==
    /\ mounted /\ ~loading /\ canEditApplication /\ NoDialogOpen
    /\ k \in 1..Len(applicationDetails.ApartmentChoices)
    /\ opsLeft > 0
    /\ opsLeft' = opsLeft - 1
    /\ applicationDetails' =
            [applicationDetails EXCEPT !.ApartmentChoices = RemoveChoice(@, k)]
    /\ unsavedChanges' = TRUE
    /\ ev' = [Event("removeChoice", "", "none", 0) EXCEPT !.arg = [NoArg EXCEPT !.k = k]]
    /\ UNCHANGED <<canEditApplication, flagVars, dialogVars, srvVars, snackbar, tasks, loading,
                   mounted, crashed, faults>>
    /\ UNCHANGED viewVars

\* handleHallAdd: a placeholder row of rank length + 1; the dirty flag is not set
AddChoice(choices) == Append(choices, Choice(Len(choices) + 1, ""))

handleHallAdd ==
    /\ mounted /\ ~loading /\ canEditApplication /\ NoDialogOpen
    /\ Len(applicationDetails.ApartmentChoices) < MaxChoices
    /\ opsLeft > 0
    /\ opsLeft' = opsLeft - 1
    /\ applicationDetails' = [applicationDetails EXCEPT !.ApartmentChoices = AddChoice(@)]
    /\ ev' = Event("addChoice", "", "none", 0)
    /\ UNCHANGED <<unsavedChanges, canEditApplication, flagVars, dialogVars, srvVars, snackbar,
                   tasks, loading, mounted, crashed, faults>>
    /\ UNCHANGED viewVars

Next ==
    \/ Mount
    \/ \E i \in Slots : LoadIdServe(i)
    \/ \E i \in Slots : LoadIdContinue(i)
    \/ \E i \in Slots : LoadRecServe(i)
    \/ \E i \in Slots : LoadRecContinue(i)
    \/ \E u \in AddInputs : AddCall(u)
    \/ \E i \in Slots : AddProfileContinue(i)
    \/ \E i \in Slots : AddIdServe(i)
    \/ \E i \in Slots : AddIdContinue(i)
    \/ \E u \in RemoveInputs : handleApplicantRemove(u)
    \/ \E k \in {"save", "delete", "submit"} : TimeoutFires(k)
    \/ \E i \in Slots : GateServe(i)
    \/ SaveCall
    \/ \E i \in Slots : SaveGateContinue(i)
    \/ \E i \in Slots : SaveServe(i)
    \/ \E i \in Slots : SaveContinue(i)
    \/ DeleteButtonClick
    \/ handleDeleteAppAccepted
    \/ \E i \in Slots : DeleteServe(i)
    \/ \E i \in Slots : DeleteContinue(i)
    \/ handleSubmitButtonClick
    \/ handleSubmitAppAccepted
    \/ \E i \in Slots : SubmitGateContinue(i)
    \/ \E i \in Slots : SubmitServe(i)
    \/ \E i \in Slots : SubmitContinue(i)
    \/ \E u \in EditorInputs : handleChangeEditor(u)
    \/ handleChangeEditorAccepted
    \/ handleCloseOkay
    \/ \E r \in RankInputs, n \in NameInputs, k \in 1..MaxChoices : handleHallInputChange(r, n, k)
    \/ \E k \in 1..MaxChoices : handleHallRemove(k)
    \/ handleHallAdd

Spec == Init /\ [][Next]_vars

\* The application page before its mount effect, and staying there
PageIdle ==
    /\ applicationDetails = BLANK_APPLICATION_DETAILS
    /\ unsavedChanges = FALSE
    /\ canEditApplication = FALSE
    /\ loading = TRUE
    /\ saving = "false" /\ deleting = "false" /\ submitStatus = "false"
    /\ snackbar = [message |-> "", severity |-> "", open |-> FALSE]
    /\ deleteDialogOpen = FALSE /\ submitDialogOpen = FALSE /\ changeEditorDialogOpen = FALSE
    /\ newEditorProfile = ""
    /\ alertTimeout = [save |-> FALSE, delete |-> FALSE, submit |-> FALSE]
    /\ timeouts = [save |-> 0, delete |-> 0, submit |-> 0]
    /\ tasks = [i \in Slots |-> Idle]
    /\ srvRec = NoRecord
    /\ srvNextId = FIRST_ID
    /\ mounted = FALSE
    /\ crashed = FALSE
    /\ ev = NoEvent
    /\ opsLeft = 0
    /\ faults = 0

\* One useQueryState hook on a page opened on any URL
InitQuery ==
    /\ PageIdle /\ EventsUnused /\ HallSelectionUnused
    /\ type \in Types
    /\ initial \in {NoInitial} \cup {Given(v) : v \in Inputs(type)}
    /\ state = IF initial.given THEN initial.v ELSE defaultValues(type)
    /\ initializing = TRUE
    /\ search \in UrlInputs(type)
    /\ pushes = 0
    /\ effectDue = FALSE
    /\ last = NoCall
    /\ callsLeft = MaxCalls
    /\ otherSearch = Absent /\ otherInitializing = FALSE
    /\ captured = [key |-> Absent, other |-> Absent]

appVars == <<applicationDetails, unsavedChanges, canEditApplication, loading,
             saving, deleting, submitStatus, snackbar, deleteDialogOpen, submitDialogOpen,
             changeEditorDialogOpen, newEditorProfile, alertTimeout, timeouts, tasks, srvRec,
             srvNextId, mounted, crashed, ev, opsLeft, faults>>

NextQuery ==
    \/ MountEffects /\ UNCHANGED <<appVars, eventVars, hallListVars>>
    \/ \E v \in Inputs(type) : setQueryState(v) /\ UNCHANGED <<appVars, eventVars, hallListVars>>
    \/ updateStateFromURL /\ UNCHANGED <<appVars, eventVars, hallListVars>>
    \/ \E url \in UrlInputs(type) : Navigate(url) /\ UNCHANGED <<appVars, eventVars, hallListVars>>

SpecQuery == InitQuery /\ [][NextQuery]_vars

\* Two useQueryState hooks of one component: this one, and a String hook on
\* another key. Each hook's setQueryState builds the new URL from the
\* location.search its closure holds, that of the last render.
Keys == {"key", "other"}
TypeOf(k) == IF k = "key" THEN type ELSE "String"
Location == [key |-> search, other |-> otherSearch]
InitializingOf(k) == IF k = "key" THEN initializing ELSE otherInitializing
CallOf(op, k) == [key |-> op, other |-> op \o " other"][k]
PairInitials(k) == IF k = "key" THEN {initial} ELSE {NoInitial} \cup {Given(v) : v \in StringInputs}

\* setQueryState(nextState) of the hook on key k: urlParams is parsed from the
\* captured location.search, k's parameter is set or deleted, and the whole of
\* urlParams is pushed
PushOn(k, v) ==
    LET o == PushFor(TypeOf(k), v, captured[k]) IN
    /\ search' = IF o.pushed THEN [captured EXCEPT ![k] = o.search].key ELSE search
    /\ otherSearch' = IF o.pushed THEN [captured EXCEPT ![k] = o.search].other ELSE otherSearch
    /\ pushes' = IF o.pushed THEN pushes + 1 ELSE pushes
    /\ effectDue' = (effectDue \/ o.pushed)

\* The mount effect of the hook on key k; the effects of both hooks run after the
\* first render, before any other
PairMountEffects(k) ==
    /\ type \in Types /\ InitializingOf(k)
    /\ \E i \in PairInitials(k) :
        IF SetsInitial(TypeOf(k), i)
        THEN /\ PushOn(k, i.v)
             /\ last' = [op |-> CallOf("mount", k), arg |-> i.v, pushed |-> pushes' > pushes]
        ELSE /\ last' = [op |-> CallOf("mount", k), arg |-> i.v, pushed |-> FALSE]
             /\ effectDue' = effectDue
             /\ UNCHANGED <<search, otherSearch, pushes>>
    /\ initializing' = IF k = "key" THEN FALSE ELSE initializing
    /\ otherInitializing' = IF k = "other" THEN FALSE ELSE otherInitializing
    /\ UNCHANGED <<type, initial, state, callsLeft, captured>>

\* setQueryState(nextState) of the hook on key k, called from an event handler; a
\* handler may call both hooks' setters before the next render
PairSetQueryState(k, nextState) ==
    /\ type \in Types /\ ~initializing /\ ~otherInitializing
    /\ callsLeft > 0
    /\ callsLeft' = callsLeft - 1
    /\ PushOn(k, nextState)
    /\ last' = [op |-> CallOf("set", k), arg |-> nextState, pushed |-> pushes' > pushes]
    /\ UNCHANGED <<type, initial, state, initializing, otherInitializing, captured>>

\* The render after a push, and this hook's updateStateFromURL effect
PairRender ==
    /\ type \in Types /\ ~initializing /\ ~otherInitializing
    /\ effectDue \/ captured # Location
    /\ captured' = Location
    /\ state' = StateFromURL(type, state, search)
    /\ effectDue' = (state' # state)
    /\ UNCHANGED <<type, initial, initializing, otherInitializing, search, otherSearch, pushes,
                   last, callsLeft>>

InitPair ==
    /\ PageIdle /\ EventsUnused /\ HallSelectionUnused
    /\ type \in Types
    /\ initial \in {NoInitial} \cup {Given(v) : v \in Inputs(type)}
    /\ state = IF initial.given THEN initial.v ELSE defaultValues(type)
    /\ initializing = TRUE /\ otherInitializing = TRUE
    /\ search \in {Absent, Param(<<"a">>)}
    /\ otherSearch \in {Absent, Param(<<"a">>)}
    /\ captured = Location
    /\ pushes = 0
    /\ effectDue = TRUE
    /\ last = NoCall
    /\ callsLeft = MaxCalls

NextPair ==
    \/ \E k \in Keys : PairMountEffects(k) /\ UNCHANGED <<appVars, eventVars, hallListVars>>
    \/ \E k \in Keys : \E v \in Inputs(TypeOf(k)) : PairSetQueryState(k, v) /\ UNCHANGED <<appVars, eventVars, hallListVars>>
    \/ PairRender /\ UNCHANGED <<appVars, eventVars, hallListVars>>

SpecPair == InitPair /\ [][NextPair]_vars

\* --------------------------------------------------------------------- Events
\* location.search is the sequence of the segments between the &s that follow the
\* `?`; <<>> is the empty search
FilterNames == {"Chapel", "CL&W"}
FilterInputs ==
    {f \in UNION {[1..n -> FilterNames] : n \in 0..2} : \A i, j \in 1..Len(f) : f[i] = f[j] => i = j}

\* encodeURIComponent, and the decoding URLSearchParams does
encodeURIComponent(name) == IF name = "CL&W" THEN "CL%26W" ELSE name
decode(segment) == IF segment = "CL%26W" THEN "CL&W" ELSE segment

\* The key of a segment `key` or `key=value`
KeyOf(segment) == IF segment = "Past=1" THEN "Past" ELSE decode(segment)

\* urlParams.keys(): empty segments carry no parameter
RECURSIVE urlKeys(_)
urlKeys(segments) ==
    IF segments = <<>> THEN <<>>
    ELSE IF Head(segments) = "" THEN urlKeys(Tail(segments))
    ELSE <<KeyOf(Head(segments))>> \o urlKeys(Tail(segments))

\* filtersFromURL: the keys other than 'Past', in their order
RECURSIVE WithoutPast(_)
WithoutPast(keys) ==
    IF keys = <<>> THEN <<>>
    ELSE IF Head(keys) = "Past" THEN WithoutPast(Tail(keys))
    ELSE <<Head(keys)>> \o WithoutPast(Tail(keys))

HasPast(keys) == \E j \in 1..Len(keys) : keys[j] = "Past"

\* The URLs the view is opened on or navigated to
SearchInputs ==
    { <<>>, <<"Past">>, <<"Past=1", "Chapel">>, <<"", "Past", "CL%26W">>, <<"", "Chapel">> }

\* The URL setURLParams(includePast, filters) pushes: '?' + '&Past' + '&filter'...,
\* the bare path when nothing is set and the current URL has parameters, and no
\* push otherwise
UrlAfter(past, chosen) ==
    IF past \/ Len(chosen) > 0
    THEN <<"">> \o (IF past THEN <<"Past">> ELSE <<>>)
               \o [j \in 1..Len(chosen) |-> encodeURIComponent(chosen[j])]
    ELSE IF locationSearch # <<>> THEN <<>>
    ELSE locationSearch

\* The location changes to `url`: when props.location.search differs, the effect
\* runs loadEvents, which sets loading and awaits the events service
setURLParams(url) ==
    /\ locationSearch' = url
    /\ eventsLoading' = (eventsLoading \/ url # locationSearch)
    /\ eventLoads' = IF url # locationSearch THEN Append(eventLoads, url) ELSE eventLoads

handleChangeFilters(chosen) ==
    /\ open /\ eventOps > 0
    /\ eventOps' = eventOps - 1
    /\ filters' = chosen
    /\ setURLParams(UrlAfter(includePast, chosen))
    /\ UNCHANGED <<open, includePast>>

handleChangeIncludePast ==
    /\ open /\ eventOps > 0
    /\ eventOps' = eventOps - 1
    /\ includePast' = ~includePast
    /\ setURLParams(UrlAfter(~includePast, filters))
    /\ UNCHANGED <<open, filters>>

\* handleExpandClick: clearFilters(); setOpen(!open)
handleExpandClick ==
    /\ eventOps > 0
    /\ eventOps' = eventOps - 1
    /\ includePast' = FALSE
    /\ filters' = <<>>
    /\ setURLParams(UrlAfter(FALSE, <<>>))
    /\ open' = ~open

\* The browser goes back or forward, or a link is followed
NavigateEvents(url) ==
    /\ eventOps > 0 /\ url # locationSearch
    /\ eventOps' = eventOps - 1
    /\ setURLParams(url)
    /\ UNCHANGED <<open, includePast, filters>>

RemoveLoad(i) == SubSeq(eventLoads, 1, i - 1) \o SubSeq(eventLoads, i + 1, Len(eventLoads))

\* loadEvents after its await (the events service answers), for the
\* location.search its effect closed over; the calls in flight answer in any order
loadEventsContinue(i) ==
    /\ i \in 1..Len(eventLoads)
    /\ LET keys == urlKeys(eventLoads[i]) IN
        IF eventLoads[i] # <<>>
        THEN /\ filters' = WithoutPast(keys)
             /\ includePast' = HasPast(keys)
             /\ open' = (HasPast(keys) \/ Len(WithoutPast(keys)) > 0)
        ELSE UNCHANGED <<filters, includePast, open>>
    /\ eventsLoading' = FALSE
    /\ eventLoads' = RemoveLoad(i)
    /\ UNCHANGED <<locationSearch, eventOps>>

\* The view after its first render and the start of its first loadEvents
InitEvents ==
    /\ PageIdle /\ HookUnused /\ HallSelectionUnused
    /\ open = FALSE /\ includePast = FALSE /\ filters = <<>>
    /\ eventsLoading = TRUE
    /\ locationSearch \in SearchInputs
    /\ eventLoads = <<locationSearch>>
    /\ eventOps = MaxEventOps

NextEvents ==
    \/ \E chosen \in FilterInputs : handleChangeFilters(chosen) /\ UNCHANGED <<appVars, hookVars, hallListVars>>
    \/ handleChangeIncludePast /\ UNCHANGED <<appVars, hookVars, hallListVars>>
    \/ handleExpandClick /\ UNCHANGED <<appVars, hookVars, hallListVars>>
    \/ \E url \in SearchInputs : NavigateEvents(url) /\ UNCHANGED <<appVars, hookVars, hallListVars>>
    \/ \E i \in 1..(MaxEventOps + 1) : loadEventsContinue(i) /\ UNCHANGED <<appVars, hookVars, hallListVars>>

SpecEvents == InitEvents /\ [][NextEvents]_vars

\* -------------------------------------------------------------- HallSelection
\* Hall names as the services return them, some padded with spaces
RawHalls == {"Tavilla", " Tavilla ", "Bromley "}
HallLists == UNION {[1..n -> RawHalls] : n \in 0..MaxHalls}

\* String.prototype.trim
trim(hall) ==
    IF hall = " Tavilla " THEN "Tavilla" ELSE IF hall = "Bromley " THEN "Bromley" ELSE hall

NoHallTask == [pc |-> "idle", halls |-> <<>>]

\* useEffect(() => { ...; loadHalls(); }) has no dependency list: it runs after
\* every render. loadHalls up to `await housing.getApartmentHalls(editorUsername)`
loadHalls ==
    /\ hallRender # "none" /\ hallTask.pc = "idle"
    /\ hallLoads < MaxHallLoads
    /\ hallLoads' = hallLoads + 1
    /\ hallTask' = [pc |-> "getApartmentHalls", halls |-> <<>>]
    /\ hallRender' = "none"
    /\ UNCHANGED availableHalls

\* The housing service answers, or fails: the catch block awaits goStalk.getHalls()
HousingHallsServe ==
    /\ hallTask.pc = "getApartmentHalls"
    /\ \/ \E halls \in HallLists : hallTask' = [pc |-> "loaded", halls |-> halls]
       \/ hallTask' = [pc |-> "getHalls", halls |-> <<>>]
    /\ UNCHANGED <<availableHalls, hallRender, hallLoads>>

\* The fallback source answers, or fails: loadHalls rejects and sets nothing
FallbackHallsServe ==
    /\ hallTask.pc = "getHalls"
    /\ \/ \E halls \in HallLists : hallTask' = [pc |-> "loaded", halls |-> halls]
       \/ hallTask' = NoHallTask
    /\ UNCHANGED <<availableHalls, hallRender, hallLoads>>

\* setAvailableHalls(unfilteredHalls.map((hall) => hall.trim())): map builds a new
\* array, so the state changes and the component renders again
LoadHallsContinue ==
    /\ hallTask.pc = "loaded"
    /\ availableHalls' = [j \in 1..Len(hallTask.halls) |-> trim(hallTask.halls[j])]
    /\ hallRender' = "load"
    /\ hallTask' = NoHallTask
    /\ UNCHANGED hallLoads

\* HallSelection after its first render
InitHallSelection ==
    /\ PageIdle /\ HookUnused /\ EventsUnused
    /\ availableHalls = <<>>
    /\ hallTask = NoHallTask
    /\ hallRender = "mount"
    /\ hallLoads = 0

NextHallSelection ==
    \/ loadHalls /\ UNCHANGED <<appVars, hookVars, eventVars>>
    \/ HousingHallsServe /\ UNCHANGED <<appVars, hookVars, eventVars>>
    \/ FallbackHallsServe /\ UNCHANGED <<appVars, hookVars, eventVars>>
    \/ LoadHallsContinue /\ UNCHANGED <<appVars, hookVars, eventVars>>

SpecHallSelection == InitHallSelection /\ [][NextHallSelection]_vars

\* Adding and removing applicants
InitRoster == InitWith({NoRecord, PairRecord}, MaxRosterOps)

NextRoster ==
    \/ Mount
    \/ \E i \in Slots : LoadIdServe(i)
    \/ \E i \in Slots : LoadIdContinue(i)
    \/ \E i \in Slots : LoadRecServe(i)
    \/ \E i \in Slots : LoadRecContinue(i)
    \/ \E u \in AddInputs : AddCall(u)
    \/ \E i \in Slots : AddProfileContinue(i)
    \/ \E i \in Slots : AddIdServe(i)
    \/ \E i \in Slots : AddIdContinue(i)
    \/ \E u \in RemoveInputs : handleApplicantRemove(u)

SpecRoster == InitRoster /\ [][NextRoster]_vars

\* Saving and submitting one stored application, with the roster edited between
\* (the status-icon timers are left to run on: they touch the busy flags only)
InitSubmit == InitWith({PairRecord}, MaxSubmitOps)

NextSubmit ==
    \/ Mount
    \/ \E i \in Slots : LoadIdServe(i)
    \/ \E i \in Slots : LoadIdContinue(i)
    \/ \E i \in Slots : LoadRecServe(i)
    \/ \E i \in Slots : LoadRecContinue(i)
    \/ \E u \in RemoveInputs : handleApplicantRemove(u)
    \/ \E i \in Slots : GateServe(i)
    \/ \E i \in Slots : SaveGateContinue(i)
    \/ \E i \in Slots : SaveServe(i)
    \/ \E i \in Slots : SaveContinue(i)
    \/ handleSubmitButtonClick
    \/ handleSubmitAppAccepted
    \/ \E i \in Slots : SubmitGateContinue(i)
    \/ \E i \in Slots : SubmitServe(i)
    \/ \E i \in Slots : SubmitContinue(i)

SpecSubmit == InitSubmit /\ [][NextSubmit]_vars

\* The steps that need no user: the housing service answering, the continuation
\* after an await, and a timer running out; each happens once it can
ServiceFairness ==
    /\ \A i \in Slots :
        /\ WF_vars(LoadIdServe(i)) /\ WF_vars(LoadIdContinue(i))
        /\ WF_vars(LoadRecServe(i)) /\ WF_vars(LoadRecContinue(i))
        /\ WF_vars(AddProfileContinue(i)) /\ WF_vars(AddIdServe(i)) /\ WF_vars(AddIdContinue(i))
        /\ WF_vars(GateServe(i))
        /\ WF_vars(SaveGateContinue(i)) /\ WF_vars(SaveServe(i)) /\ WF_vars(SaveContinue(i))
        /\ WF_vars(DeleteServe(i)) /\ WF_vars(DeleteContinue(i))
        /\ WF_vars(SubmitGateContinue(i)) /\ WF_vars(SubmitServe(i)) /\ WF_vars(SubmitContinue(i))
    /\ \A kind \in {"save", "delete", "submit"} : WF_vars(TimeoutFires(kind))

SpecFair == Spec /\ ServiceFairness

\* The editor transfer alone, one operation deeper: a change that leaves the
\* aggregate dirty, the nomination, and its acceptance or cancellation
InitEditor == InitWith({PairRecord}, MaxEditorOps)

NextEditor ==
    \/ Mount
    \/ \E i \in Slots : LoadIdServe(i)
    \/ \E i \in Slots : LoadIdContinue(i)
    \/ \E i \in Slots : LoadRecServe(i)
    \/ \E i \in Slots : LoadRecContinue(i)
    \/ \E u \in RemoveInputs : handleApplicantRemove(u)
    \/ \E u \in EditorInputs : handleChangeEditor(u)
    \/ handleChangeEditorAccepted
    \/ handleCloseOkay
    \/ \E i \in Slots : GateServe(i)
    \/ \E i \in Slots : SaveGateContinue(i)
    \/ \E i \in Slots : SaveServe(i)
    \/ \E i \in Slots : SaveContinue(i)
    \/ \E k \in {"save", "delete", "submit"} : TimeoutFires(k)

SpecEditor == InitEditor /\ [][NextEditor]_vars
SpecEditorFair == SpecEditor /\ ServiceFairness

\* The hall list alone, one operation deeper
InitHalls == InitWith({NoRecord, TwoHallRecord}, MaxHallOps)

NextHalls ==
    \/ Mount
    \/ \E i \in Slots : LoadIdServe(i)
    \/ \E i \in Slots : LoadIdContinue(i)
    \/ \E i \in Slots : LoadRecServe(i)
    \/ \E i \in Slots : LoadRecContinue(i)
    \/ \E r \in RankInputs, n \in NameInputs, k \in 1..MaxChoices : handleHallInputChange(r, n, k)
    \/ \E k \in 1..MaxChoices : handleHallRemove(k)
    \/ handleHallAdd

SpecHalls == InitHalls /\ [][NextHalls]_vars

\* A member on no application: the fresh draft is given a hall and submitted
InitDraft == InitWith({NoRecord}, MaxDraftOps)

NextDraft ==
    \/ Mount
    \/ \E i \in Slots : LoadIdServe(i)
    \/ \E i \in Slots : LoadIdContinue(i)
    \/ \E i \in Slots : LoadRecServe(i)
    \/ \E i \in Slots : LoadRecContinue(i)
    \/ \E r \in RankInputs, n \in NameInputs, k \in 1..MaxChoices : handleHallInputChange(r, n, k)
    \/ handleHallAdd
    \/ \E i \in Slots : GateServe(i)
    \/ \E i \in Slots : SaveGateContinue(i)
    \/ \E i \in Slots : SaveServe(i)
    \/ \E i \in Slots : SaveContinue(i)
    \/ handleSubmitButtonClick
    \/ handleSubmitAppAccepted
    \/ \E i \in Slots : SubmitGateContinue(i)
    \/ \E i \in Slots : SubmitServe(i)
    \/ \E i \in Slots : SubmitContinue(i)

SpecDraft == InitDraft /\ [][NextDraft]_vars

\* ===================================================================== claims
Roster == applicationDetails.Applicants
AddEnded(what) == ev.op = "add" /\ ev.what = what

\* C1: in every reachable state the Applicants roster holds at most
\* MAX_NUM_APPLICANTS entries (so an add attempted on a full roster is rejected),
\* also when the lookups of several addApplicant calls overlap.
C1_RosterAtMostMax == Len(Roster) <= MAX_NUM_APPLICANTS

\* C2: in every reachable state no two entries of Applicants have the same
\* username, also when two addApplicant calls for one username are in flight.
C2_UsernamesUnique == Cardinality(Usernames(Roster)) = Len(Roster)

\* C3: all applicants have the same gender after every step, and an addApplicant
\* of a candidate whose gender differs from the aggregate's is rejected with the
\* roster left as it was.
SameGender(applicants) ==
    \A i, j \in 1..Len(applicants) :
        Gender(applicants[i].Username) = Gender(applicants[j].Username)

C3_SameGender ==
    [][/\ SameGender(Roster')
       /\ \A i \in Slots :
            (tasks[i].op = "add" /\ tasks'[i].op = "idle"
                /\ Gender(tasks[i].user) # applicationDetails.Gender)
            => Roster' = Roster]_vars

\* Bob (M) has just been rejected for his gender, the roster being non-empty
C3_Witness == AddEnded("gender") /\ Len(Roster) >= 1 /\ SameGender(Roster)
\* C4: addApplicant(u) appends u at the end of Applicants and marks the aggregate
\* dirty exactly when every eligibility rule holds of the aggregate (fewer than
\* MAX_NUM_APPLICANTS entries, u a student of the aggregate's gender, u neither the
\* editor nor listed, the housing service reporting for u no application or this
\* one); in every other case nothing is appended.
LocalRules(u) ==
    /\ Len(Roster) < MAX_NUM_APPLICANTS
    /\ "stu" \in PersonType(u)
    /\ Gender(u) = applicationDetails.Gender
    /\ u # applicationDetails.EditorProfile
    /\ u \notin Usernames(Roster)

HousingClear(r, id) == r.t = "notfound" \/ (r.t = "ok" /\ (r.v <= 0 \/ r.v = id))

C4_AppendedExactlyWhenEligible ==
    [][\A i \in Slots :
        (tasks[i].op = "add" /\ tasks'[i].op = "idle")
        => IF /\ tasks[i].pc = "getCurrentApplicationID"
              /\ LocalRules(tasks[i].user)
              /\ HousingClear(tasks[i].resp, applicationDetails.ApplicationID)
           THEN Roster' = Append(Roster, Applicant(tasks[i].user)) /\ unsavedChanges'
           ELSE Roster' = Roster]_vars

\* C5: an addApplicant that ends without appending (rejected by a rule, or a lookup
\* of the identity or housing service failed) raises a notification, does not
\* crash the page, and leaves the aggregate and the dirty flag as they were.
C5_AddFailureReported ==
    [][\A i \in Slots :
        (tasks[i].op = "add" /\ tasks'[i].op = "idle" /\ ev'.what # "appended")
        => /\ ev'.note # "none" /\ snackbar'.open /\ snackbar'.severity = ev'.note
           /\ ~crashed'
           /\ applicationDetails' = applicationDetails
           /\ unsavedChanges' = unsavedChanges]_vars

\* C6: a save called on an aggregate with no applicant starts no request to any
\* service, changes nothing the housing service holds, and raises an error
\* notification.
SaveInvoked ==
    /\ opsLeft' < opsLeft
    /\ \/ ev'.op \in {"save", "submitclick"}
       \/ ev'.op = "nominate" /\ unsavedChanges /\ changeEditorDialogOpen'
       \/ ev'.op = "transfer" /\ newEditorProfile # ""

C6_EmptySaveStaysLocal ==
    [][(SaveInvoked /\ Len(Roster) = 0)
        => /\ tasks' = tasks
           /\ srvRec' = srvRec
           /\ snackbar'.open /\ snackbar'.severity = "error"]_vars

C6_Witness ==
    /\ ev.op = "save" /\ ev.what = "empty" /\ Len(Roster) = 0
    /\ snackbar.severity = "error" /\ \A i \in Slots : tasks[i].op # "save"

\* C7: a save sends its request to the save endpoint only when every applicant
\* has passed the eligibility check; when one has not, the save ends without
\* the request and the service's record stays as it was.
EligibleAtSave(det, k, r) ==
    /\ Len(det.Applicants) < MAX_NUM_APPLICANTS
    /\ "stu" \in PersonType(det.Applicants[k].Username)
    /\ Gender(det.Applicants[k].Username) = det.Gender
    /\ HousingClear(r, det.ApplicationID)

C7_SaveGate ==
    [][\A i \in Slots :
        /\ (tasks[i].op = "save" /\ tasks[i].pc = "validate" /\ tasks'[i] # tasks[i]
                /\ tasks[i].resp.t # "none")
           => IF \A k \in 1..Len(tasks[i].det.Applicants) :
                    EligibleAtSave(tasks[i].det, k, tasks[i].resp.ids[k])
              THEN tasks'[i].pc = "saveApartmentApplication"
              ELSE tasks'[i].op = "idle" /\ srvRec' = srvRec
        /\ (tasks'[i].op = "save" /\ tasks'[i].pc = "saveApartmentApplication"
                /\ tasks[i].pc # "saveApartmentApplication")
           => tasks[i].op = "save" /\ tasks[i].pc = "validate" /\ tasks[i].resp.t = "ok"]_vars

\* a save has just been stopped by an invalid applicant
C7_Witness ==
    /\ ev.op = "save" /\ ev.what = "invalid"
    /\ \A i \in Slots : tasks[i].op # "save"

\* C8 (as stated): when the save endpoint returns an id the id is adopted, the dirty
\* flag cleared and a reload started, and when that reload has fetched the record
\* the local aggregate equals the record the housing service holds.
SaveSucceeds(i) ==
    /\ tasks[i].op = "save" /\ tasks[i].pc = "saveApartmentApplication"
    /\ tasks[i].resp.t = "ok" /\ tasks[i].resp.v > 0
    /\ tasks'[i] # tasks[i]

ReloadFetched(i) ==
    /\ tasks[i].op = "load" /\ tasks[i].from = "save"
    /\ tasks[i].pc = "getApartmentApplication" /\ tasks[i].resp.t = "ok"
    /\ tasks'[i].op = "idle"

SaveAdopts(i) ==
    SaveSucceeds(i)
    => /\ applicationDetails'.ApplicationID = tasks[i].resp.v
       /\ ~unsavedChanges'
       /\ tasks'[i].op = "load" /\ tasks'[i].from = "save"

C8_ReloadEqualsServiceRecord ==
    [][\A i \in Slots :
        /\ SaveAdopts(i)
        /\ ReloadFetched(i) => applicationDetails' = srvRec']_vars

\* C8 (amended): ... and when that reload has fetched the record, the local
\* aggregate is the record the housing service returned, which is the record it
\* held when it answered the fetch.
C8_ReloadAppliesFetchedRecord ==
    [][\A i \in Slots :
        /\ SaveAdopts(i)
        /\ ReloadFetched(i) => applicationDetails' = tasks[i].resp.rec
        /\ (Waiting(i, "load", "getApartmentApplication") /\ tasks'[i].resp.t = "ok")
           => tasks'[i].resp.rec = srvRec]_vars

\* the reload started by a save has just put the saved record in place
C8_Witness ==
    /\ ev.op = "load" /\ ev.from = "save" /\ ev.what = "record"
    /\ applicationDetails.ApplicationID > 0 /\ ~unsavedChanges
    /\ applicationDetails = srvRec

\* C9: when the endpoint of save, submit or delete throws or returns an empty
\* result, the operation ends without crashing the page, with an error
\* notification and its own status flag 'error', and with ApplicationID,
\* Applicants, ApartmentChoices and the dirty flag as they were.
EndpointOf(op) ==
    IF op = "save" THEN "saveApartmentApplication"
    ELSE IF op = "delete" THEN "deleteApartmentApplication" ELSE "submitApplication"

EndpointFailed(i) ==
    /\ tasks[i].op \in {"save", "submit", "delete"}
    /\ tasks[i].pc = EndpointOf(tasks[i].op)
    /\ \/ tasks[i].resp.t \in {"auth", "notfound", "error"}
       \/ tasks[i].resp.t = "ok" /\ tasks[i].resp.v = 0
    /\ tasks'[i] # tasks[i]

C9_EndpointFailureCaught ==
    [][\A i \in Slots :
        EndpointFailed(i)
        => /\ ~crashed'
           /\ tasks'[i].op = "idle"
           /\ snackbar'.open /\ snackbar'.severity = "error"
           /\ (tasks[i].op = "save" => saving' = "error")
           /\ (tasks[i].op = "submit" => submitStatus' = "error")
           /\ (tasks[i].op = "delete" => deleting' = "error")
           /\ applicationDetails'.ApplicationID = applicationDetails.ApplicationID
           /\ applicationDetails'.Applicants = applicationDetails.Applicants
           /\ applicationDetails'.ApartmentChoices = applicationDetails.ApartmentChoices
           /\ unsavedChanges' = unsavedChanges]_vars

\* a submit has just failed at its endpoint
C9_Witness ==
    /\ ev.op = "submit" /\ ev.what = "failed"
    /\ submitStatus = "error" /\ snackbar.severity = "error"

\* C10: loadApplication sets the state from the service's answer: an id above 0
\* leads to the fetch of that record, the fetched record becomes the aggregate
\* with edit rights exactly for its editor and the dirty flag false; "not found"
\* gives a fresh draft (null id, the member as sole applicant and editor) with
\* edit rights.
LoadAnswered(i) ==
    tasks[i].op = "load" /\ tasks[i].resp.t # "none" /\ tasks'[i] # tasks[i]

C10_LoadSetsState ==
    [][\A i \in Slots :
        LoadAnswered(i)
        => LET r == tasks[i].resp
               atId == tasks[i].pc = "getCurrentApplicationID"
           IN  /\ (atId /\ r.t = "ok" /\ r.v > 0)
                  => /\ tasks'[i].op = "load" /\ tasks'[i].pc = "getApartmentApplication"
                     /\ tasks'[i].det.ApplicationID = r.v
               /\ (~atId /\ r.t = "ok")
                  => /\ applicationDetails' = r.rec
                     /\ canEditApplication' = (r.rec.EditorProfile = Me)
                     /\ ~unsavedChanges'
               /\ (r.t = "notfound" \/ (atId /\ r.t = "ok" /\ r.v <= 0))
                  => /\ applicationDetails'.ApplicationID = NULL_ID
                     /\ applicationDetails'.Applicants = <<Applicant(Me)>>
                     /\ applicationDetails'.EditorProfile = Me
                     /\ canEditApplication']_vars

\* a record whose editor is another member has just been loaded: no edit rights
C10_Witness ==
    /\ ev.op = "load" /\ ev.what = "record"
    /\ applicationDetails.EditorProfile = "f1" /\ ~canEditApplication /\ ~unsavedChanges

\* C11: an initial load whose id query or record fetch fails with anything other
\* than "not found" (a 401 or any other error) ends in a fatal page-level error:
\* the page does not go on with an aggregate.
C11_InitialLoadFailureFatal ==
    (ev.op = "load" /\ ev.from = "mount" /\ ev.what \in {"auth", "swallowed"}) => crashed

\* C12: submit sends its request to the submit endpoint only after the validation
\* gate of save has passed every applicant, and once DateSubmitted is set no user
\* operation (add / remove applicant, hall add / edit / remove) changes
\* Applicants, ApartmentChoices or EditorProfile.
UserMutations == {"add", "remove", "editChoice", "removeChoice", "addChoice"}

SubmitGated(i) ==
    (tasks'[i].op = "submit" /\ tasks'[i].pc = "submitApplication"
        /\ tasks[i].pc # "submitApplication")
    => /\ tasks[i].op = "submit" /\ tasks[i].pc = "validate" /\ tasks[i].resp.t = "ok"
       /\ \A k \in 1..Len(tasks[i].det.Applicants) :
            EligibleAtSave(tasks[i].det, k, tasks[i].resp.ids[k])

C12_SubmittedIsReadOnly ==
    [][/\ \A i \in Slots : SubmitGated(i)
       /\ (applicationDetails.DateSubmitted /\ ev'.op \in UserMutations)
          => /\ applicationDetails'.Applicants = applicationDetails.Applicants
             /\ applicationDetails'.ApartmentChoices = applicationDetails.ApartmentChoices
             /\ applicationDetails'.EditorProfile = applicationDetails.EditorProfile]_vars

\* C13: after the delete endpoint has reported success the page is reset to the
\* state a load that finds no record produces (a fresh draft with null
\* ApplicationID in place of the deleted record), and the housing service's record
\* disappears only by an explicit delete.
DeleteReloadEnds(i) ==
    tasks[i].op = "load" /\ tasks[i].from = "delete" /\ tasks'[i].op = "idle"

DeletedByDelete ==
    (HasRecord /\ srvRec' = NoRecord)
    => \E i \in Slots : Waiting(i, "delete", "deleteApartmentApplication")
                        /\ tasks'[i].resp.t = "ok"

C13_DeleteResetsToNoApplication ==
    [][/\ \A i \in Slots :
            DeleteReloadEnds(i)
            => /\ applicationDetails' = NewApplication
               /\ canEditApplication' /\ unsavedChanges'
       /\ DeletedByDelete]_vars

\* C14: the aggregate's ApplicationID is null exactly when no save of this
\* application has succeeded, that is when the housing service holds no record of
\* it; stated of the states in which no request is in flight.
Quiescent == mounted /\ \A i \in Slots : tasks[i].op = "idle"

C14_NullIdIffNeverSaved ==
    Quiescent => ((applicationDetails.ApplicationID = NULL_ID) <=> ~HasRecord)

\* C15: the editor-transfer confirmation is entered only when the member has edit
\* rights and the nominated profile is in Applicants; a handleChangeEditor in any
\* other case opens no dialog, records no pending editor and starts no request.
C15_TransferOfferGuarded ==
    [][/\ (changeEditorDialogOpen' /\ ~changeEditorDialogOpen)
          => /\ canEditApplication
             /\ newEditorProfile' \in Usernames(Roster)
       /\ (ev'.op = "nominate" /\ opsLeft' < opsLeft
             /\ ~(canEditApplication /\ newEditorProfile' \in Usernames(Roster)))
          => /\ changeEditorDialogOpen' = changeEditorDialogOpen
             /\ newEditorProfile' = newEditorProfile
             /\ tasks' = tasks]_vars

\* the confirmation has just been entered for a listed applicant
C15_Witness ==
    /\ ev.op = "nominate" /\ changeEditorDialogOpen /\ canEditApplication
    /\ newEditorProfile = "f1" /\ "f1" \in Usernames(Roster)

\* C16: when an editor transfer is accepted, the save of the unsaved changes has
\* ended (with success or not) before the save with the new EditorProfile is
\* started, and that second save is started whatever the first one's outcome.
AcceptStep == ev'.op = "transfer" /\ opsLeft' < opsLeft /\ changeEditorDialogOpen

TransferSaveStarted ==
    \E i \in Slots : tasks[i].op = "idle" /\ tasks'[i].op = "save" /\ tasks'[i].from = "transfer"

C16_PersistBeforeTransfer ==
    [][AcceptStep
        => /\ \A i \in Slots : ~(tasks[i].op = "save" /\ tasks[i].from = "nominate")
           /\ TransferSaveStarted]_vars

\* C17: when the save with the new EditorProfile of an accepted transfer fails
\* (stopped by the validation, thrown, or an empty result), the legacy
\* changeEditor endpoint is called next (changeApplicationEditor is started).
TransferSaveFails(i) ==
    tasks[i].op = "save" /\ tasks[i].from = "transfer" /\ tasks'[i].op = "idle"

C17_LegacyFallback ==
    [][\A i \in Slots :
        TransferSaveFails(i)
        => \E j \in Slots : tasks'[j].op = "changeApplicationEditor"]_vars

\* C18: once an editor transfer has been accepted, the dialog is closed, and when
\* the requests in flight have all ended the member has no edit rights, whether
\* the save with the new editor succeeded or failed.
C18_RightsRevokedAfterAccept ==
    ev.accepted
    => /\ ~changeEditorDialogOpen
       /\ Quiescent => ~canEditApplication

\* C19: no two entries of ApartmentChoices have the same non-empty HallName: an
\* edit to the name of an entry at another index is rejected (the entries stay
\* what they were), and an edit that keeps the row's own name, such as a change
\* of rank only, is stored.
Halls == applicationDetails.ApartmentChoices
Entries(choices) == {choices[j] : j \in 1..Len(choices)}

HallNamesUnique(choices) ==
    \A i, j \in 1..Len(choices) :
        (i # j /\ choices[i].HallName # "") => choices[i].HallName # choices[j].HallName

EditStep == ev'.op = "editChoice" /\ opsLeft' < opsLeft

C19_HallNamesUnique ==
    [][/\ HallNamesUnique(Halls')
       /\ EditStep
          => LET a == ev'.arg IN
             IF a.name # "" /\ \E j \in 1..Len(Halls) : j # a.k /\ Halls[j].HallName = a.name
             THEN Len(Halls') = Len(Halls) /\ Entries(Halls') = Entries(Halls)
             ELSE /\ Len(Halls') = Len(Halls)
                  /\ Choice(a.rank, a.name) \in Entries(Halls')
                  /\ \A j \in 1..Len(Halls) : j # a.k => Halls[j] \in Entries(Halls')]_vars

\* an edit to the name of another row has just been rejected
C19_Witness ==
    /\ ev.op = "editChoice" /\ ev.what = "taken" /\ Len(Halls) >= 2
    /\ \E j \in 1..Len(Halls) : j # ev.arg.k /\ Halls[j].HallName = ev.arg.name

\* C20 (as stated): after every mutation of ApartmentChoices (add, edit, remove)
\* the HallRank values are unique and are exactly the integers 1..len.
Ranks(choices) == {choices[j].HallRank : j \in 1..Len(choices)}
HallStep(op) == ev'.op = op /\ opsLeft' < opsLeft

C20_RanksContiguous ==
    [][(HallStep("addChoice") \/ HallStep("editChoice") \/ HallStep("removeChoice"))
        => Ranks(Halls') = 1..Len(Halls')]_vars

\* C20 (amended): the ranks are the ones the user assigned and are not renumbered:
\* addChoice appends a row of rank len + 1, editChoice gives the row the rank it
\* is called with and leaves the list ordered by rank, and after removeChoice no
\* remaining rank is above the new length.
C20_RanksAsAssigned ==
    [][/\ HallStep("addChoice") => Halls' = Append(Halls, Choice(Len(Halls) + 1, ""))
       /\ (HallStep("editChoice") /\ ev'.what = "stored")
          => /\ Choice(ev'.arg.rank, ev'.arg.name) \in Entries(Halls')
             /\ \A i, j \in 1..Len(Halls') : i < j => Halls'[i].HallRank <= Halls'[j].HallRank
       /\ HallStep("removeChoice")
          => /\ Len(Halls') = Len(Halls) - 1
             /\ \A j \in 1..Len(Halls') : Halls'[j].HallRank <= Len(Halls')]_vars

\* a row has just been removed and a rank was lowered to the new length: two rows
\* now share a rank and rank 1 is missing
C20_Witness ==
    /\ ev.op = "removeChoice" /\ Len(Halls) = 2
    /\ Ranks(Halls) = {2}

\* C21: removeChoice(i) at a valid index i takes the entry at i out and leaves the
\* list one shorter; a remaining entry keeps its name, and keeps its rank unless
\* the rank is above the new length, when it becomes the new length; no other rank
\* is renumbered, and removing the only entry leaves the empty list.
C21_RemoveClampsOnly ==
    [][HallStep("removeChoice")
        => LET k == ev'.arg.k
               n == Len(Halls) - 1
           IN  /\ k \in 1..Len(Halls)
               /\ Len(Halls') = n
               /\ (Len(Halls) = 1 => Halls' = <<>>)
               /\ \A j \in 1..n :
                    LET old == IF j < k THEN Halls[j] ELSE Halls[j + 1] IN
                    /\ Halls'[j].HallName = old.HallName
                    /\ Halls'[j].HallRank = (IF old.HallRank > n THEN n ELSE old.HallRank)
                    /\ Halls'[j].HallRank <= n]_vars

\* the first of the two stored rows was the one operation so far: what is left is
\* the second row, its rank lowered from 2 to the new length 1
C21_Witness ==
    /\ ev.op = "removeChoice" /\ ev.arg.k = 1
    /\ opsLeft = MaxHallOps - 1
    /\ Halls = <<Choice(1, "Tavilla")>>

\* C22: editChoice(index, rank, name): when the name is the non-empty name of an
\* entry at another index the edit is rejected with a notice and the list holds
\* the same entries as before; otherwise the entry at index becomes (rank, name)
\* and every other entry is kept; either way the list is then sorted by
\* (rank, name).
Count(choices, c) == Cardinality({j \in 1..Len(choices) : choices[j] = c})
SameEntries(a, b) ==
    /\ Len(a) = Len(b)
    /\ \A c \in Entries(a) \cup Entries(b) : Count(a, c) = Count(b, c)
Sorted(choices) ==
    \A i, j \in 1..Len(choices) : i < j => ~ChoiceBefore(choices[j], choices[i])

C23_HallOpsMarkDirty ==
    [][((HallStep("addChoice") \/ HallStep("editChoice") \/ HallStep("removeChoice"))
         /\ Halls' # Halls)
        => unsavedChanges']_vars

\* C24: a busy flag (saving, deleting, submitStatus) that has the value 'success'
\* or 'error' is false again later, with no further user action, given that the
\* timers run out.
Shown(flag) == flag \in {"success", "error"}

C24_FlagsRevert ==
    /\ Shown(saving) ~> (saving = "false")
    /\ Shown(deleting) ~> (deleting = "false")
    /\ Shown(submitStatus) ~> (submitStatus = "false")

\* C25: a new save, submit or delete cancels the revert timer its predecessor
\* started: no timer sets the flag of a kind to false while an operation of that
\* kind is still in flight.
InFlight(kind) == \E i \in Slots : tasks[i].op = kind
TimerStep(kind) == ev'.op = "timeout" /\ ev'.what = kind /\ timeouts'[kind] < timeouts[kind]

C25_TimerCancelledByNewOperation ==
    [][\A kind \in {"save", "delete", "submit"} : TimerStep(kind) => ~InFlight(kind)]_vars

\* C26: nothing keeps a second save from starting while a save is in flight, and
\* nothing orders two saves in flight: with a save in flight the Save button's
\* handler can still run, and every outstanding save request can be answered and
\* every answered one applied, whatever the other save is doing.
SaveRequested(i) == Waiting(i, "save", "saveApartmentApplication")
SaveAnswered(i) == Answered(i, "save", "saveApartmentApplication")

C26_SavesNotSerialised ==
    /\ (InFlight("save") /\ mounted /\ ~loading /\ canEditApplication /\ NoDialogOpen
            /\ opsLeft > 0 /\ HasFree)
        => ENABLED SaveCall
    /\ \A i \in Slots : SaveRequested(i) => ENABLED SaveServe(i)
    /\ \A i \in Slots : SaveAnswered(i) => ENABLED SaveContinue(i)

\* two save requests are outstanding at once
C26_Witness ==
    \E i, j \in Slots : i # j /\ SaveRequested(i) /\ SaveRequested(j)

\* C27: a submit called on an aggregate whose DateSubmitted is already set changes
\* neither Applicants nor ApartmentChoices: not at the call, not while it runs and
\* not when the reload it starts is applied.
ResubmitCall ==
    ev'.op = "submit" /\ opsLeft' < opsLeft /\ applicationDetails.DateSubmitted
ResubmitStep(i) ==
    /\ tasks'[i] # tasks[i]
    /\ \/ tasks[i].op = "submit" /\ tasks[i].det.DateSubmitted
       \/ tasks[i].op = "load" /\ tasks[i].from = "submit again"

C27_ResubmitKeepsAggregate ==
    [][(ResubmitCall \/ \E i \in Slots : ResubmitStep(i))
        => /\ applicationDetails'.Applicants = applicationDetails.Applicants
           /\ applicationDetails'.ApartmentChoices = applicationDetails.ApartmentChoices]_vars

\* C28: addApplicant(u) that appended u, followed by removeApplicant(u), leaves
\* Applicants the multiset it was before the addition.
JustAppended == ev.op = "add" /\ ev.what = "appended" /\ Len(Roster) > 0
RemovesAppended ==
    /\ ev'.op = "remove" /\ opsLeft' < opsLeft
    /\ ev'.what = Roster[Len(Roster)].Username
SameApplicants(a, b) ==
    /\ Len(a) = Len(b)
    /\ \A u \in Usernames(a) \cup Usernames(b) :
        Cardinality({j \in 1..Len(a) : a[j].Username = u})
            = Cardinality({j \in 1..Len(b) : b[j].Username = u})

C28_AddThenRemoveRestores ==
    [][(JustAppended /\ RemovesAppended)
        => SameApplicants(applicationDetails'.Applicants, SubSeq(Roster, 1, Len(Roster) - 1))]_vars

\* C29: setQueryState(nextState) pushes no history entry when the URL's value for
\* the key is already nextState, which covers the key being absent while nextState
\* is the type's default, and nextState being true while the key is there with an
\* empty value.
SetStep == last'.op = "set" /\ callsLeft' < callsLeft
UrlIs(t, v, url) ==
    \/ url.has /\ url.val = toString(t, v)
    \/ ~url.has /\ v = defaultValues(t)
    \/ t = "Boolean" /\ v.b /\ url.has /\ url.val = <<>>

C29_NoPushWhenUrlHasValue ==
    [][(SetStep /\ UrlIs(type, last'.arg, search)) => pushes' = pushes]_vars

\* C30: after setQueryState(v), once updateStateFromURL has run, the state is v:
\* for a String the URL value ('' when the key is absent), for an Array the URL
\* value split at the commas ([] when absent), for a Boolean whether the key is
\* present; and an empty v leaves the key absent from the URL.
Synced(t, st, url) ==
    IF t = "String" THEN st.s = (IF url.has THEN url.val ELSE <<>>)
    ELSE IF t = "Array" THEN st.a = (IF url.has THEN split(url.val) ELSE <<>>)
    ELSE st.b = url.has

C30_StateFollowsSetQueryState ==
    (last.op = "set" /\ ~effectDue)
        => /\ state = last.arg
           /\ Synced(type, state, search)
           /\ IsEmpty(type, last.arg) => ~search.has

\* C31: whenever unsavedChanges is false and no load is in progress, the local
\* Applicants, ApartmentChoices and EditorProfile are those of the record the
\* housing service holds; an edit made while a save or its reload is in flight is
\* not marked clean without having been persisted, and the reload does not
\* overwrite it.
Persisted(det) == <<det.Applicants, det.ApartmentChoices, det.EditorProfile>>
LoadInProgress == \E i \in Slots : tasks[i].op = "load"
MarkedClean == ev'.op = "save" /\ ev'.what = "saved" /\ ev' # ev
SaveReloadEnds == ev'.op = "load" /\ ev'.from = "save" /\ ev'.what = "record" /\ ev' # ev

C31_CleanMeansPersisted ==
    /\ []((mounted /\ faults = 0 /\ ~unsavedChanges /\ ~LoadInProgress)
            => Persisted(applicationDetails) = Persisted(srvRec))
    /\ [][MarkedClean => Persisted(applicationDetails') = Persisted(srvRec')]_vars
    /\ [][SaveReloadEnds => Persisted(applicationDetails') = Persisted(applicationDetails)]_vars

\* C32: whenever the change-editor confirmation dialog is open, the pending new
\* editor is set, also when the save started by handleChangeEditor completes and
\* reloads the application while the dialog is open.
C32_OpenDialogHasPendingEditor ==
    changeEditorDialogOpen => newEditorProfile # ""

\* C33: a click on the submit button opens the submit confirmation dialog only
\* once the save it starts has succeeded; while that save is in flight, and when it
\* is rejected or fails, the dialog is not opened.
SubmitDialogOpens == ~submitDialogOpen /\ submitDialogOpen'
ClickSaveInFlight == \E i \in Slots : tasks[i].op = "save" /\ tasks[i].from = "submitclick"

C33_SubmitDialogAfterSave ==
    [][SubmitDialogOpens => (ev'.op = "save" /\ ev'.what = "saved" /\ ~ClickSaveInFlight')]_vars

\* C34: the submit endpoint is never called with a null ApplicationID: every
\* submit request names an application whose save has succeeded.
SubmitRequested(i) == tasks[i].op = "submit" /\ tasks[i].pc = "submitApplication"

C34_SubmitHasApplicationID ==
    \A i \in Slots : SubmitRequested(i) => tasks[i].det.ApplicationID # NULL_ID

\* C35: a roster the add-time rules accept stays saveable: with 1 to 8 applicants,
\* all students of the application's gender and none on another application, save
\* and submit pass the applicant-validation gate and call the endpoint, also with
\* exactly 8 applicants.
RosterAcceptable(det) ==
    /\ Len(det.Applicants) \in 1..MAX_NUM_APPLICANTS
    /\ \A j \in 1..Len(det.Applicants) :
        /\ IsStudent(getProfileInfo(det.Applicants[j].Username))
        /\ Gender(det.Applicants[j].Username) = det.Gender
AnswersClear(det, ids) ==
    \A j \in 1..Len(ids) :
        \/ ids[j].t = "notfound"
        \/ ids[j].t = "ok" /\ ids[j].v \in {NO_ID, det.ApplicationID}
GateEnds(i, op) == Answered(i, op, "validate") /\ tasks'[i] # tasks[i]

C35_AcceptedRosterSaveable ==
    [][\A i \in Slots :
        /\ (/\ GateEnds(i, "save")
            /\ RosterAcceptable(tasks[i].det)
            /\ AnswersClear(tasks[i].det, tasks[i].resp.ids))
                => tasks'[i].pc = "saveApartmentApplication"
        /\ (/\ GateEnds(i, "submit")
            /\ RosterAcceptable(tasks[i].det)
            /\ AnswersClear(tasks[i].det, tasks[i].resp.ids))
                => tasks'[i].pc = "submitApplication"]_vars

\* C36: loading stays true from the start of the initial load until loadApplication
\* has completed: the page is never shown as loaded while the initial load is in
\* flight and the aggregate is still the blank placeholder.
InitialLoadInFlight == \E i \in Slots : tasks[i].op = "load" /\ tasks[i].from = "mount"

C36_LoadingUntilLoaded ==
    (mounted /\ ~loading)
        => ~(InitialLoadInFlight /\ applicationDetails = BLANK_APPLICATION_DETAILS)

\* C37: setQueryState for one key changes only that key's parameter in the URL
\* and preserves the parameters of the other keys, also when two hooks on
\* different keys call setQueryState before the location has been updated by the
\* first push.
Pushed == pushes' = pushes + 1
Caller == IF last'.op \in {"set", "mount"} THEN "key" ELSE "other"
Touched == {k \in Keys : Location'[k] # Location[k]}

C37_OtherKeysPreserved ==
    [][Pushed => Touched \subseteq {Caller}]_vars

\* C38: in the Events view, once loading has finished (no loadEvents call is in
\* flight), includePast and filters are what the URL encodes: includePast is true exactly when the key 'Past' is
\* present, filters are exactly the other keys, and with no filter and includePast
\* false the URL has no query parameters.
C38_ViewMatchesUrl ==
    (~eventsLoading /\ eventLoads = <<>>)
        => /\ includePast = HasPast(urlKeys(locationSearch))
           /\ filters = WithoutPast(urlKeys(locationSearch))
           /\ (~includePast /\ filters = <<>>) => locationSearch = <<>>

\* C39: after HallSelection mounts, loading the available halls completes and the
\* component is quiescent: a completed load does not itself start another load,
\* so without user action only finitely many hall-list requests are issued.
LoadHallsStarts == hallLoads' > hallLoads

C39_LoadDoesNotTriggerLoad ==
    [][LoadHallsStarts => hallRender # "load"]_vars
====
